---- MODULE Spec2Model ----
(***************************************************************************)
(* Model of the retrieval pipeline of Personal_Sales_Analyst:              *)
(*   app.py (namespace derivation, /upload, /query),                       *)
(*   src/vector_manager.py (VectorDBManager),                              *)
(*   src/query_llm.py (_format_sources, query_llm),                        *)
(*   src/chunking.py (calculate_chunk_params, rolling_window_chunk,        *)
(*   csv_chunker), src/text_conversion.py (sanitize_text),                 *)
(*   src/embeddings.py and src/csv_ingestion.py (ingestion).               *)
(* Each component has its own group of variables and its own               *)
(* specification; a specification keeps the other groups idle.             *)
(***************************************************************************)
EXTENDS Integers, Sequences, FiniteSets, TLC

VARIABLES
    \* ---- namespace derivation (app.py /upload, /query)
    up_req,          \* last /upload request: user_id, filename, derived namespace
    q_req,           \* last /query request: user_id, file_id, derived namespace
    \* ---- rolling_window_chunk (src/chunking.py)
    chunk_overlap,   \* config.CHUNK_OVERLAP
    total_tokens,    \* len(tokens)
    start,           \* loop variable start
    chunk_id,        \* loop variable chunk_id
    chunks,          \* list of emitted chunks
    rw_pc,           \* "loop" while the while-loop runs, "done" after return
    \* ---- query_llm (src/query_llm.py)
    ql_pc,           \* position of the query_llm call
    ql_log,          \* the steps the call has taken, in order
    matches,         \* result.matches of db.query
    max_context_chars, \* the character budget of the call
    context_text,    \* context_text returned by _format_sources
    sources,         \* sources returned by _format_sources
    llm_calls,       \* number of ask_llm calls made by the call
    llm_response,    \* what ask_llm returned
    result,          \* the value query_llm returned
    \* ---- VectorDBManager.upsert_vectors / query and POST /upload
    store,           \* the records of the Pinecone index
    caller,          \* who called upsert_vectors: "upload", "direct" or "none"
    uv_pc,           \* "idle", "running" (inside the with block) or "returned"
    uv_namespace,    \* the namespace argument of upsert_vectors
    uv_vectors,      \* the vectors argument of upsert_vectors (their ids)
    uv_batch_size,   \* the batch_size argument of upsert_vectors
    uv_batches,      \* batches
    uv_calls,        \* the index.upsert calls made so far, in order
    uv_state,        \* per batch: "queued", "inflight", "done" or "failed"
    uv_max_workers,  \* the max_workers argument of upsert_vectors
    upload_response, \* what POST /upload answered: "none", "success", "error"
    last_query,      \* the last similarity query and what it returned
    \* ---- csv_chunker (src/chunking.py)
    file_obj,        \* the lines of the file handed to csv_chunker
    reader,          \* the lines csv.reader has not yielded yet
    current_chunk,   \* row texts of the running chunk
    current_tokens,  \* token count of the running chunk
    csv_chunk_id,    \* chunk_id of csv_chunker
    csv_chunks,      \* chunks of csv_chunker
    csv_pc,          \* "idle", "header", "rows" (the for loop) or "done"
    \* ---- VectorDBManager.__init__ (src/vector_manager.py)
    pinecone_indexes, \* the indexes of the provider: name, dimension, metric
    ix_pc,           \* per manager: position of its construction
    ix_args,         \* per manager: index_name, dimension, metric
    existing_indexes, \* per manager: the names list_indexes returned
    target_index,    \* per manager: target_index
    needs_create,    \* per manager: needs_create
    create_calls,    \* per manager: the create_index calls it issued
    ix_started,      \* per manager: when its construction began
    ix_clock,        \* counts construction starts and ends
    ix_history,      \* the constructions that ended, in the order they ended
    \* ---- sanitize_text (src/text_conversion.py)
    sn_arg,          \* the argument s of the current call
    sn_orig,         \* orig
    sn_t,            \* t
    sn_pc,           \* position of the current call
    sn_results,      \* what the calls made so far returned, in order
    \* ---- ingestion: POST /upload (app.py), ingest_csv_to_pinecone
    ig_path,         \* "upload" or "csv": which ingestion runs
    ig_pc,           \* position of the ingestion
    ig_namespace,    \* the namespace it upserts into
    ig_rows,         \* the rows parsed from the file
    ig_vectors,      \* the vectors built so far
    ig_upserts,      \* the upsert_vectors calls made so far
    ig_store,        \* the records of the index
    ig_before,       \* ig_store when the ingestion began
    ig_outcome,      \* "none", "success" or "error" (HTTP 500 / exception)
    ig_embed_failed, \* the embedding provider failed during this ingestion
    ig_log,          \* the steps the ingestion has taken, in order
    \* ---- parse_csv (src/file_parser.py)
    pf_file,         \* the file read: its header and its data rows of cell texts
    pf_df,           \* the data frame, one entry per column of the header
    pf_records,      \* the list of dicts returned
    pf_pc            \* "read", "clean", "done"

ns_vars == <<up_req, q_req>>
rw_vars == <<chunk_overlap, total_tokens, start, chunk_id, chunks, rw_pc>>
ql_vars == <<ql_pc, ql_log, matches, max_context_chars, context_text, sources,
             llm_calls, llm_response, result>>
st_vars == <<store, caller, uv_pc, uv_namespace, uv_vectors, uv_batch_size,
             uv_batches, uv_calls, uv_state, uv_max_workers, upload_response,
             last_query>>
cv_vars == <<file_obj, reader, current_chunk, current_tokens, csv_chunk_id, csv_chunks,
             csv_pc>>
ix_vars == <<pinecone_indexes, ix_pc, ix_args, existing_indexes, target_index,
             needs_create, create_calls, ix_started, ix_clock, ix_history>>
sn_vars == <<sn_arg, sn_orig, sn_t, sn_pc, sn_results>>
ig_vars == <<ig_path, ig_pc, ig_namespace, ig_rows, ig_vectors, ig_upserts,
             ig_store, ig_before, ig_outcome, ig_embed_failed, ig_log>>
pf_vars == <<pf_file, pf_df, pf_records, pf_pc>>
vars == <<ns_vars, rw_vars, ql_vars, st_vars, cv_vars, ix_vars, sn_vars, ig_vars, pf_vars>>

\* what the actions of one component leave alone: the other components
ns_frame == <<rw_vars, ql_vars, st_vars, cv_vars, ix_vars, sn_vars, ig_vars, pf_vars>>
rw_frame == <<ns_vars, ql_vars, st_vars, cv_vars, ix_vars, sn_vars, ig_vars, pf_vars>>
ql_frame == <<ns_vars, rw_vars, st_vars, cv_vars, ix_vars, sn_vars, ig_vars, pf_vars>>
st_frame == <<ns_vars, rw_vars, ql_vars, cv_vars, ix_vars, sn_vars, ig_vars, pf_vars>>
cv_frame == <<ns_vars, rw_vars, ql_vars, st_vars, ix_vars, sn_vars, ig_vars, pf_vars>>
ix_frame == <<ns_vars, rw_vars, ql_vars, st_vars, cv_vars, sn_vars, ig_vars, pf_vars>>
sn_frame == <<ns_vars, rw_vars, ql_vars, st_vars, cv_vars, ix_vars, ig_vars, pf_vars>>
ig_frame == <<ns_vars, rw_vars, ql_vars, st_vars, cv_vars, ix_vars, sn_vars, pf_vars>>
pf_frame == <<ns_vars, rw_vars, ql_vars, st_vars, cv_vars, ix_vars, sn_vars, ig_vars>>

Min(a, b) == IF a < b THEN a ELSE b
Max(a, b) == IF a > b THEN a ELSE b

(***************************************************************************)
(* Namespace derivation: app.py lines 89 and 137.                          *)
(* Strings are sequences of one-character strings.                         *)
(***************************************************************************)
MaxStrLen == 2
Alphabet == {"a", "_"}

RECURSIVE StringsOfLen(_)
StringsOfLen(n) ==
    IF n = 0 THEN {<<>>}
    ELSE {Append(s, c) : s \in StringsOfLen(n - 1), c \in Alphabet}

\* the non-empty user ids and file names the requests are drawn from
Strings == UNION {StringsOfLen(n) : n \in 1..MaxStrLen}

NoReq == [user_id |-> <<>>, file_id |-> <<>>, namespace |-> <<>>]

\* f"user_{user_id}_{filename}"
UploadNamespace(user_id, filename) ==
    <<"u", "s", "e", "r", "_">> \o user_id \o <<"_">> \o filename

\* f"user_{user_id}_{file_id}"
QueryNamespace(user_id, file_id) ==
    <<"u", "s", "e", "r", "_">> \o user_id \o <<"_">> \o file_id

NsIdle == up_req = NoReq /\ q_req = NoReq

\* POST /upload: the namespace the vectors of (user_id, filename) are stored under
UploadDerive(user_id, filename) ==
    /\ up_req' = [user_id |-> user_id, file_id |-> filename,
                  namespace |-> UploadNamespace(user_id, filename)]
    /\ UNCHANGED q_req
    /\ UNCHANGED ns_frame

\* POST /query: the namespace that is searched for (user_id, file_id)
QueryDerive(user_id, file_id) ==
    /\ q_req' = [user_id |-> user_id, file_id |-> file_id,
                 namespace |-> QueryNamespace(user_id, file_id)]
    /\ UNCHANGED up_req
    /\ UNCHANGED ns_frame

(***************************************************************************)
(* Rolling-window chunking: src/chunking.py lines 20-63.                   *)
(***************************************************************************)
CHUNK_OVERLAP == 100

MaxTokens == 620
BoundarySpread == 2
SmallThreshold == 2000
LargeThreshold == 10000
SmallChunk == 200
MediumChunk == 500
LargeChunk == 1000

\* the token counts the text is drawn from: every small count, and the counts
\* around the two thresholds of calculate_chunk_params
TokenCounts ==
    (0..MaxTokens)
    \cup ((SmallThreshold - BoundarySpread)..(SmallThreshold + BoundarySpread))
    \cup ((LargeThreshold - BoundarySpread)..(LargeThreshold + BoundarySpread))

\* faulty variant of ChunkSizeFor: a count equal to a threshold stays in the
\* tier below
ChunkSizeInclusive(total) ==
    IF total <= SmallThreshold THEN SmallChunk
    ELSE IF total <= LargeThreshold THEN MediumChunk
    ELSE LargeChunk
\* lines 24-29: the chunk size of a text of this many tokens
ChunkSizeFor(total) ==
    IF total < SmallThreshold THEN SmallChunk
    ELSE IF total < LargeThreshold THEN MediumChunk
    ELSE LargeChunk

\* faulty variant of OverlapFor: the configured overlap is used as it is
OverlapUncapped(configured, chunk_size) == configured
\* overlap = CHUNK_OVERLAP if CHUNK_OVERLAP < chunk_size else int(chunk_size / 5)
OverlapFor(configured, chunk_size) ==
    IF configured < chunk_size THEN configured ELSE chunk_size \div 5

\* calculate_chunk_params(total_tokens) -> (chunk_size, overlap)
calculate_chunk_params(total, configured) ==
    [chunk_size |-> ChunkSizeFor(total),
     overlap |-> OverlapFor(configured, ChunkSizeFor(total))]

chunk_size == calculate_chunk_params(total_tokens, chunk_overlap).chunk_size
overlap == calculate_chunk_params(total_tokens, chunk_overlap).overlap

\* end = min(start + chunk_size, total_tokens)
WindowEnd(s, size, total) == Min(s + size, total)

\* faulty variant of NextStart: the overlap is added instead of subtracted
SkipOverlapStart(s, size, ov) == s + size + ov
\* start += (chunk_size - overlap)
NextStart(s, size, ov) == s + (size - ov)

RwIdle ==
    /\ chunk_overlap = CHUNK_OVERLAP
    /\ total_tokens = 0
    /\ start = 0
    /\ chunk_id = 0
    /\ chunks = <<>>
    /\ rw_pc = "done"

\* rolling_window_chunk(text) up to the loop: tokens = tokenizer.encode(text)
RwInit ==
    /\ chunk_overlap = CHUNK_OVERLAP
    /\ total_tokens \in TokenCounts
    /\ start = 0
    /\ chunk_id = 0
    /\ chunks = <<>>
    /\ rw_pc = "loop"

\* values of CHUNK_OVERLAP a deployment can configure: below, at and above each
\* chunk size
MaxOverlapTokens == 25
ConfiguredOverlaps ==
    {0, 1, CHUNK_OVERLAP, SmallChunk - 1, SmallChunk, SmallChunk + 1,
     MediumChunk, MediumChunk + 1, LargeChunk, LargeChunk + 1}
OverlapTokenCounts ==
    (0..MaxOverlapTokens)
    \cup {SmallChunk, SmallChunk + 1, MediumChunk + 1}
    \cup ((SmallThreshold - BoundarySpread)..(SmallThreshold + BoundarySpread))
    \cup ((LargeThreshold - BoundarySpread)..(LargeThreshold + BoundarySpread))
\* rolling_window_chunk(text) up to the loop under a configured overlap
RwOverlapInit ==
    /\ chunk_overlap \in ConfiguredOverlaps
    /\ total_tokens \in OverlapTokenCounts
    /\ start = 0
    /\ chunk_id = 0
    /\ chunks = <<>>
    /\ rw_pc = "loop"

\* one iteration of "while start < total_tokens"
RollingStep ==
    /\ rw_pc = "loop"
    /\ start < total_tokens
    /\ chunks' = Append(chunks,
                        [chunk_id |-> chunk_id,
                         start_token |-> start,
                         end_token |-> WindowEnd(start, chunk_size, total_tokens)])
    /\ chunk_id' = chunk_id + 1
    /\ start' = NextStart(start, chunk_size, overlap)
    /\ UNCHANGED <<chunk_overlap, total_tokens, rw_pc>>
    /\ UNCHANGED rw_frame

\* the loop condition fails: return chunks
RollingReturn ==
    /\ rw_pc = "loop"
    /\ ~(start < total_tokens)
    /\ rw_pc' = "done"
    /\ UNCHANGED <<chunk_overlap, total_tokens, start, chunk_id, chunks>>
    /\ UNCHANGED rw_frame

(***************************************************************************)
(* Context assembly: src/query_llm.py _format_sources, lines 18-52.        *)
(* A string is modelled by its length; the content of a match by the       *)
(* number of whitespace characters around it and the length of the rest.   *)
(***************************************************************************)
MAX_CONTEXT_CHARS == 3000
TOP_K == 6
SnippetCap == 400
SnippetKeep == 397
EllipsisLen == 3

MaxMatches == 3
MaxBudgetUnits == 30

\* the matches a similarity query can return; the formatted entries of the
\* first three are 1000, 1200 and 900 characters long
MatchShapes ==
    { [id |-> 1, id_len |-> 566, file_len |-> 8, score_len |-> 4,
       content |-> [ws |-> 2, text |-> 450]],
      [id |-> 2, id_len |-> 766, file_len |-> 8, score_len |-> 4,
       content |-> [ws |-> 0, text |-> 400]],
      [id |-> 3, id_len |-> 466, file_len |-> 8, score_len |-> 4,
       content |-> [ws |-> 1, text |-> 401]],
      [id |-> 4, id_len |-> 70, file_len |-> 8, score_len |-> 4,
       content |-> [ws |-> 0, text |-> 96]] }

RECURSIVE SeqsOfLen(_, _)
SeqsOfLen(S, n) ==
    IF n = 0 THEN {<<>>}
    ELSE {Append(q, x) : q \in SeqsOfLen(S, n - 1), x \in S}

\* db.query returns at most top_k matches
MatchLists == UNION {SeqsOfLen(MatchShapes, n) : n \in 0..Min(MaxMatches, TOP_K)}

Budgets == {b * 100 : b \in 0..MaxBudgetUnits}

\* len(str(n)) for an entry index
Digits(n) == IF n < 10 THEN 1 ELSE IF n < 100 THEN 2 ELSE 3

\* snippet = content.strip().replace("\n", " "); cut to 397 characters + "..."
\* when longer than 400
SnippetLen(content) ==
    IF content.text > SnippetCap THEN SnippetKeep + EllipsisLen ELSE content.text

\* len(f"[{i+1}] id:{src_id} file:{file_id} score:{score}\n{snippet}\n")
\* where index = i + 1
EntryLen(m, index) ==
    1 + Digits(index) + 5 + m.id_len + 6 + m.file_len + 7 + m.score_len
      + 1 + SnippetLen(m.content) + 1

\* the entry appended to sources
SourceEntry(m, index) ==
    [index |-> index, chunk_id |-> m.id, snippet_len |-> SnippetLen(m.content),
     raw |-> m.content]

\* faulty variant of ExceedsBudget: an entry that exactly fills the budget is
\* refused
ExceedsOrMeetsBudget(total_len, entry_len, max_chars) ==
    total_len + entry_len >= max_chars
\* if total_len + entry_len > max_chars: break
ExceedsBudget(total_len, entry_len, max_chars) ==
    total_len + entry_len > max_chars

\* the for loop of _format_sources from match number index on; parts holds the
\* lengths of the entries taken so far
RECURSIVE FormatLoop(_, _, _, _, _, _)
FormatLoop(ms, max_chars, index, parts, srcs, total_len) ==
    IF index > Len(ms) THEN [parts |-> parts, sources |-> srcs]
    ELSE IF ExceedsBudget(total_len, EntryLen(ms[index], index), max_chars)
         THEN [parts |-> parts, sources |-> srcs]
         ELSE FormatLoop(ms, max_chars, index + 1,
                         Append(parts, EntryLen(ms[index], index)),
                         Append(srcs, SourceEntry(ms[index], index)),
                         total_len + EntryLen(ms[index], index))

RECURSIVE SumSeq(_)
SumSeq(q) == IF q = <<>> THEN 0 ELSE q[1] + SumSeq(Tail(q))

\* len("\n".join(parts)): the parts and one separator between neighbours
JoinLen(parts) ==
    IF parts = <<>> THEN 0 ELSE SumSeq(parts) + (Len(parts) - 1)

\* _format_sources(matches, max_chars) -> (context_text, sources); context_text
\* is modelled by its length and by whether it has a non-whitespace character
\* (every entry starts with "[")
format_sources(ms, max_chars) ==
    LET r == FormatLoop(ms, max_chars, 1, <<>>, <<>>, 0)
    IN  [context_text |-> [len |-> JoinLen(r.parts), blank |-> r.parts = <<>>],
         sources |-> r.sources]

(***************************************************************************)
(* Query orchestration: src/query_llm.py query_llm, lines 77-108, and      *)
(* src/llm.py ask_llm.  A text is modelled by what it holds (kind) and the *)
(* number of whitespace characters around it (pad).                        *)
(***************************************************************************)
MaxPad == 1

JsonObjectKinds == {"json_object", "json_object_resolved", "json_object_empty"}
JsonOtherKinds == {"json_list", "json_string", "json_number", "json_null"}
NonJsonKinds == {"prose", "empty"}
TextKinds == JsonObjectKinds \cup JsonOtherKinds \cup NonJsonKinds

Text(kind, pad) == [kind |-> kind, pad |-> pad]

\* response.choices[0].message.content is None
NullContent == Text("null", 0)

\* what ask_llm can return: any text, or None
LlmOutputs == {Text(k, p) : k \in TextKinds, p \in 0..MaxPad} \cup {NullContent}

\* the fixed answer of the short circuit
DontKnowAnswer == Text("dont_know", 0)
\* what the model emitted inside a JSON object
ModelAnswer == Text("model_answer", 0)
ModelSources == <<[index |-> 1]>>
ModelResolved == <<[index |-> 99]>>

\* str.strip(): the text without the whitespace around it
Strip(text) == Text(text.kind, 0)

\* json.loads(text) succeeds
JsonValid(text) == text.kind \in JsonObjectKinds \cup JsonOtherKinds
\* json.loads(text) is a dict
JsonIsObject(text) == text.kind \in JsonObjectKinds

\* json.loads(text) for a text that holds a JSON object; the empty object is
\* the function with the empty domain
JsonObject(text) ==
    CASE text.kind = "json_object" ->
            [answer |-> ModelAnswer, sources |-> ModelSources]
      [] text.kind = "json_object_resolved" ->
            [answer |-> ModelAnswer, sources |-> ModelSources,
             resolved_sources |-> ModelResolved]
      [] OTHER -> <<>>

\* faulty variant of AttachResolved: a resolved_sources key emitted by the
\* model is kept
KeepModelResolved(parsed, srcs) == parsed @@ [resolved_sources |-> srcs]
\* parsed["resolved_sources"] = sources
AttachResolved(parsed, srcs) == [resolved_sources |-> srcs] @@ parsed

\* faulty variant of FallbackResult: the warning is left out
FallbackNoWarning(response, srcs) ==
    [answer |-> Strip(response), sources |-> srcs]
\* the value returned by the except branch
FallbackResult(response, srcs) ==
    [answer |-> Strip(response), sources |-> srcs,
     warning |-> "LLM response was not valid JSON."]

\* the value returned when the context is empty
DontKnowResult == [answer |-> DontKnowAnswer, sources |-> <<>>]

\* faulty variant of ContextBlank: the empty-context check never fires
NeverBlank(ctx) == FALSE
\* not context_text.strip()
ContextBlank(ctx) == ctx.blank

NoResult == <<>>
NoContext == [len |-> 0, blank |-> TRUE]

QlIdle ==
    /\ ql_pc = "returned"
    /\ ql_log = <<>>
    /\ matches = <<>>
    /\ max_context_chars = MAX_CONTEXT_CHARS
    /\ context_text = NoContext
    /\ sources = <<>>
    /\ llm_calls = 0
    /\ llm_response = NullContent
    /\ result = NoResult

\* query_llm(query, top_k, max_context_chars, namespace) is entered
QlInit ==
    /\ ql_pc = "construct"
    /\ ql_log = <<>>
    /\ matches = <<>>
    /\ max_context_chars \in Budgets
    /\ context_text = NoContext
    /\ sources = <<>>
    /\ llm_calls = 0
    /\ llm_response = NullContent
    /\ result = NoResult

QlStep(from, to, what) ==
    /\ ql_pc = from
    /\ ql_pc' = to
    /\ ql_log' = Append(ql_log, what)

\* db = VectorDBManager(api_key=..., index_name=PINECONE_INDEX)
QueryConstruct ==
    /\ QlStep("construct", "embed", "construct")
    /\ UNCHANGED <<matches, max_context_chars, context_text, sources,
                   llm_calls, llm_response, result>>
    /\ UNCHANGED ql_frame

COHERE_INPUT_TYPE_DOCUMENT == "search_document"
COHERE_INPUT_TYPE_QUERY == "search_query"

\* faulty variant of InputType: every text is embedded as a document
InputTypeAlwaysDocument(is_query) == COHERE_INPUT_TYPE_DOCUMENT
\* get_embedding: input_type = COHERE_INPUT_TYPE_QUERY if is_query else
\* COHERE_INPUT_TYPE_DOCUMENT
InputType(is_query) ==
    IF is_query THEN COHERE_INPUT_TYPE_QUERY ELSE COHERE_INPUT_TYPE_DOCUMENT

\* the log entry of a _co.embed call with this input_type
EmbedStep(input_type) ==
    IF input_type = COHERE_INPUT_TYPE_QUERY THEN "embed_query"
    ELSE "embed_document"

\* query_vector = get_embedding(query, is_query=True)
QueryEmbed ==
    /\ QlStep("embed", "retrieve", EmbedStep(InputType(TRUE)))
    /\ UNCHANGED <<matches, max_context_chars, context_text, sources,
                   llm_calls, llm_response, result>>
    /\ UNCHANGED ql_frame

\* the embedding provider raises
QueryEmbedFails ==
    /\ QlStep("embed", "raised", "embed_raises")
    /\ UNCHANGED <<matches, max_context_chars, context_text, sources,
                   llm_calls, llm_response, result>>
    /\ UNCHANGED ql_frame

\* result = db.query(...); matches = result.matches
QueryRetrieve(ms) ==
    /\ QlStep("retrieve", "assemble", "retrieve")
    /\ matches' = ms
    /\ UNCHANGED <<max_context_chars, context_text, sources,
                   llm_calls, llm_response, result>>
    /\ UNCHANGED ql_frame

\* the vector store raises
QueryRetrieveFails ==
    /\ QlStep("retrieve", "raised", "retrieve_raises")
    /\ UNCHANGED <<matches, max_context_chars, context_text, sources,
                   llm_calls, llm_response, result>>
    /\ UNCHANGED ql_frame

\* context_text, sources = _format_sources(matches, max_context_chars)
QueryAssemble ==
    /\ QlStep("assemble", "check_context", "assemble")
    /\ context_text' = format_sources(matches, max_context_chars).context_text
    /\ sources' = format_sources(matches, max_context_chars).sources
    /\ UNCHANGED <<matches, max_context_chars, llm_calls, llm_response, result>>
    /\ UNCHANGED ql_frame

\* if not context_text.strip(): return the fixed answer
QueryShortCircuit ==
    /\ ContextBlank(context_text)
    /\ QlStep("check_context", "returned", "short_circuit")
    /\ result' = DontKnowResult
    /\ UNCHANGED <<matches, max_context_chars, context_text, sources,
                   llm_calls, llm_response>>
    /\ UNCHANGED ql_frame

\* prompt = _build_prompt(query, context_text)
QueryBuildPrompt ==
    /\ ~ContextBlank(context_text)
    /\ QlStep("check_context", "generate", "build_prompt")
    /\ UNCHANGED <<matches, max_context_chars, context_text, sources,
                   llm_calls, llm_response, result>>
    /\ UNCHANGED ql_frame

\* llm_response = ask_llm(prompt)
QueryGenerate(response) ==
    /\ QlStep("generate", "parse", "generate")
    /\ llm_calls' = llm_calls + 1
    /\ llm_response' = response
    /\ UNCHANGED <<matches, max_context_chars, context_text, sources, result>>
    /\ UNCHANGED ql_frame

\* ask_llm(prompt) raises: the provider call was made and failed
QueryGenerateFails ==
    /\ QlStep("generate", "raised", "generate_raises")
    /\ llm_calls' = llm_calls + 1
    /\ UNCHANGED <<matches, max_context_chars, context_text, sources,
                   llm_response, result>>
    /\ UNCHANGED ql_frame

\* the try branch returns: json.loads gave a dict and the evidence was attached
QueryParseObject ==
    /\ llm_response # NullContent
    /\ JsonIsObject(Strip(llm_response))
    /\ QlStep("parse", "returned", "parse_object")
    /\ result' = AttachResolved(JsonObject(Strip(llm_response)), sources)
    /\ UNCHANGED <<matches, max_context_chars, context_text, sources,
                   llm_calls, llm_response>>
    /\ UNCHANGED ql_frame

\* the except branch returns: json.loads raised, or the item assignment raised
\* TypeError because json.loads gave a list, a string, a number or None
QueryParseFallback ==
    /\ llm_response # NullContent
    /\ ~JsonIsObject(Strip(llm_response))
    /\ QlStep("parse", "returned", "parse_fallback")
    /\ result' = FallbackResult(llm_response, sources)
    /\ UNCHANGED <<matches, max_context_chars, context_text, sources,
                   llm_calls, llm_response>>
    /\ UNCHANGED ql_frame

\* llm_response is None: llm_response.strip() raises AttributeError in the try
\* branch and again in the except branch, so query_llm raises
QueryParseRaises ==
    /\ llm_response = NullContent
    /\ QlStep("parse", "raised", "parse_raises")
    /\ UNCHANGED <<matches, max_context_chars, context_text, sources,
                   llm_calls, llm_response, result>>
    /\ UNCHANGED ql_frame

(***************************************************************************)
(* Vector store: src/vector_manager.py upsert_vectors (59-76) and query    *)
(* (78-88), the namespace choice of query_llm (src/query_llm.py 81-84) and *)
(* POST /upload (app.py 60-129).                                           *)
(***************************************************************************)
DEFAULT_BATCH_SIZE == 20
DEFAULT_MAX_WORKERS == 4

MaxVectors == 2
MaxBatchSize == 2
MaxWorkers == 2
MaxTopK == 2
MaxUpsertVectors == 3

\* the namespaces /upload derives for two sources, and the provider's default
UploadNamespaces == {"user_a_x", "user_b_x"}
DefaultNamespace == "default"
StoreNamespaces == UploadNamespaces \cup {DefaultNamespace}
\* namespace=None
None == "None"

BatchSizes == (1..MaxBatchSize) \cup {DEFAULT_BATCH_SIZE}
WorkerCounts == (1..MaxWorkers) \cup {DEFAULT_MAX_WORKERS}

\* vectors[i:i + batch_size] of the vectors with ids 1..n
Slice(i, batch_size, n) == [k \in 1..(Min(i + batch_size, n) - i) |-> i + k]

\* faulty variant of Batches: the remainder after the full batches is left out
BatchesWithoutRemainder(n, batch_size) ==
    [b \in 1..(n \div batch_size) |->
        Slice((b - 1) * batch_size, batch_size, n)]
\* batches = [vectors[i:i + batch_size] for i in range(0, n, batch_size)]
Batches(n, batch_size) ==
    [b \in 1..((n + batch_size - 1) \div batch_size) |->
        Slice((b - 1) * batch_size, batch_size, n)]

SeqRange(q) == {q[i] : i \in 1..Len(q)}

\* faulty variant of UpsertBatchNamespace: the namespace argument is dropped
UpsertIntoDefault(namespace) == DefaultNamespace
\* self.index.upsert(vectors=batch, namespace=namespace): the namespace the
\* provider is given
UpsertBatchNamespace(namespace) == namespace

\* faulty variant of ProviderUpsert: a record of the same id is replaced
\* whatever its namespace
ProviderUpsertAcrossNamespaces(records, batch, provider_ns, metadata) ==
    {r \in records : r.id \notin SeqRange(batch)}
    \cup {[id |-> v, namespace |-> provider_ns, metadata |-> metadata] :
             v \in SeqRange(batch)}
\* the provider's upsert of one batch: a record of the same id and namespace
\* is replaced; metadata names the namespace upsert_vectors was called with
ProviderUpsert(records, batch, provider_ns, metadata) ==
    {r \in records : ~(r.namespace = provider_ns /\ r.id \in SeqRange(batch))}
    \cup {[id |-> v, namespace |-> provider_ns, metadata |-> metadata] :
             v \in SeqRange(batch)}

\* if namespace: db.query(..., namespace=namespace) else: db.query(...) with
\* the default namespace="default" of VectorDBManager.query
QueryLlmNamespace(namespace) ==
    IF namespace # None THEN namespace ELSE DefaultNamespace

\* what the provider may answer to index.query: top_k records of the
\* namespace, or all of them when there are fewer
ProviderQuery(records, provider_ns, top_k) ==
    LET candidates == {r \in records : r.namespace = provider_ns}
    IN  {S \in SUBSET candidates :
            Cardinality(S) = Min(top_k, Cardinality(candidates))}

NoQuery == [namespace |-> None, top_k |-> 0, matches |-> {}]

StIdle ==
    /\ store = {}
    /\ caller = "none"
    /\ uv_pc = "idle"
    /\ uv_namespace = DefaultNamespace
    /\ uv_vectors = <<>>
    /\ uv_batch_size = DEFAULT_BATCH_SIZE
    /\ uv_batches = <<>>
    /\ uv_calls = <<>>
    /\ uv_state = <<>>
    /\ uv_max_workers = DEFAULT_MAX_WORKERS
    /\ upload_response = "none"
    /\ last_query = NoQuery

Inflight == {i \in 1..Len(uv_state) : uv_state[i] = "inflight"}

\* upsert_vectors(vectors, namespace, batch_size, max_workers) is entered:
\* the batches are built and executor.map submits all of them
UpsertEnter(who, namespace, n, batch_size, max_workers) ==
    /\ uv_pc = "idle"
    /\ caller' = who
    /\ uv_pc' = "running"
    /\ uv_namespace' = namespace
    /\ uv_vectors' = [v \in 1..n |-> v]
    /\ uv_batch_size' = batch_size
    /\ uv_batches' = Batches(n, batch_size)
    /\ uv_calls' = <<>>
    /\ uv_state' = [b \in 1..Len(Batches(n, batch_size)) |-> "queued"]
    /\ uv_max_workers' = max_workers
    /\ upload_response' = "none"
    /\ UNCHANGED <<store, last_query>>
    /\ UNCHANGED st_frame

\* POST /upload parsed and embedded the file and calls
\* vector_db.upsert_vectors(vectors, namespace=namespace)
UploadRequest(namespace, n) ==
    UpsertEnter("upload", namespace, n, DEFAULT_BATCH_SIZE, DEFAULT_MAX_WORKERS)

\* POST /upload: parse_file or embed_chunks raises; except Exception answers
\* HTTP 500 before anything is upserted
UploadFailsEarly ==
    /\ uv_pc = "idle"
    /\ upload_response = "none"
    /\ upload_response' = "error"
    /\ UNCHANGED <<store, caller, uv_pc, uv_namespace, uv_batches,
                   uv_vectors, uv_batch_size, uv_state, uv_max_workers,
                   last_query, uv_calls>>
    /\ UNCHANGED st_frame

\* any other caller of upsert_vectors
DirectUpsert(namespace, n, batch_size, max_workers) ==
    UpsertEnter("direct", namespace, n, batch_size, max_workers)

\* a worker thread of the pool takes the next queued batch (the pool's queue
\* is first in, first out) and calls upsert_batch
BatchStart(i) ==
    /\ uv_pc = "running"
    /\ i \in 1..Len(uv_state)
    /\ uv_state[i] = "queued"
    /\ \A j \in 1..(i - 1) : uv_state[j] # "queued"
    /\ Cardinality(Inflight) < uv_max_workers
    /\ uv_state' = [uv_state EXCEPT ![i] = "inflight"]
    /\ uv_calls' = Append(uv_calls,
           [vectors |-> uv_batches[i],
            namespace |-> UpsertBatchNamespace(uv_namespace)])
    /\ UNCHANGED <<store, caller, uv_pc, uv_namespace, uv_batches,
                   uv_vectors, uv_batch_size, uv_max_workers,
                   upload_response, last_query>>
    /\ UNCHANGED st_frame

\* self.index.upsert(vectors=batch, namespace=namespace) succeeds
BatchSucceed(i) ==
    /\ uv_pc = "running"
    /\ i \in Inflight
    /\ store' = ProviderUpsert(store, uv_batches[i],
                               UpsertBatchNamespace(uv_namespace), uv_namespace)
    /\ uv_state' = [uv_state EXCEPT ![i] = "done"]
    /\ UNCHANGED <<caller, uv_pc, uv_namespace, uv_batches, uv_vectors,
                   uv_batch_size, uv_max_workers, upload_response,
                   last_query, uv_calls>>
    /\ UNCHANGED st_frame

\* self.index.upsert raises in the worker thread: the exception is kept in the
\* batch's future, and nothing is stored
BatchFail(i) ==
    /\ uv_pc = "running"
    /\ i \in Inflight
    /\ uv_state' = [uv_state EXCEPT ![i] = "failed"]
    /\ UNCHANGED <<store, caller, uv_pc, uv_namespace, uv_batches,
                   uv_vectors, uv_batch_size, uv_max_workers,
                   upload_response, last_query, uv_calls>>
    /\ UNCHANGED st_frame

\* faulty variant of AllBatchesFinished: the pool is left once every batch was
\* handed to a worker
AllBatchesSubmitted(state) ==
    \A i \in 1..Len(state) : state[i] # "queued"
\* leaving the with block of line 74 calls executor.shutdown(wait=True), which
\* blocks until every submitted batch has run to its end
AllBatchesFinished(state) ==
    \A i \in 1..Len(state) : state[i] \in {"done", "failed"}

\* the with block ends: executor.shutdown(wait=True) has waited for every
\* batch; the iterator executor.map returned is never read, so no exception
\* of a batch is raised here and upsert_vectors returns None
UpsertReturn ==
    /\ uv_pc = "running"
    /\ AllBatchesFinished(uv_state)
    /\ uv_pc' = "returned"
    /\ UNCHANGED <<store, caller, uv_namespace, uv_batches, uv_vectors,
                   uv_batch_size, uv_state, uv_max_workers, upload_response,
                   last_query, uv_calls>>
    /\ UNCHANGED st_frame

\* POST /upload after upsert_vectors returned: the preview is built and the
\* message "File uploaded and vectors stored successfully" is answered
UploadRespond ==
    /\ uv_pc = "returned"
    /\ caller = "upload"
    /\ upload_response = "none"
    /\ upload_response' = "success"
    /\ UNCHANGED <<store, caller, uv_pc, uv_namespace, uv_batches,
                   uv_vectors, uv_batch_size, uv_state, uv_max_workers,
                   last_query, uv_calls>>
    /\ UNCHANGED st_frame

\* the call is over: the request was answered, or another caller goes on; the
\* locals of the call are gone
CallEnds ==
    /\ uv_pc = "returned"
    /\ caller = "direct" \/ upload_response = "success"
    /\ caller' = "none"
    /\ uv_pc' = "idle"
    /\ uv_namespace' = DefaultNamespace
    /\ uv_vectors' = <<>>
    /\ uv_batch_size' = DEFAULT_BATCH_SIZE
    /\ uv_batches' = <<>>
    /\ uv_calls' = <<>>
    /\ uv_state' = <<>>
    /\ uv_max_workers' = DEFAULT_MAX_WORKERS
    /\ upload_response' = "none"
    /\ UNCHANGED <<store, last_query>>
    /\ UNCHANGED st_frame

\* query_llm(query, top_k, namespace=namespace) retrieves: db.query passes
\* vector, top_k and the namespace to index.query
StoreQuery(namespace, top_k) ==
    /\ last_query = NoQuery
    /\ \E found \in ProviderQuery(store, QueryLlmNamespace(namespace), top_k) :
          last_query' = [namespace |-> namespace, top_k |-> top_k,
                         matches |-> found]
    /\ UNCHANGED <<store, caller, uv_pc, uv_namespace, uv_batches,
                   uv_vectors, uv_batch_size, uv_state, uv_max_workers,
                   upload_response, uv_calls>>
    /\ UNCHANGED st_frame

\* query_llm goes on with the matches it was given
StoreQueryReturn ==
    /\ last_query # NoQuery
    /\ last_query' = NoQuery
    /\ UNCHANGED <<store, caller, uv_pc, uv_namespace, uv_batches,
                   uv_vectors, uv_batch_size, uv_state, uv_max_workers,
                   upload_response, uv_calls>>
    /\ UNCHANGED st_frame

(***************************************************************************)
(* Row-batch chunking: src/chunking.py csv_chunker, lines 66-102.          *)
(* A line of the file is a record: which line it is and the token count    *)
(* of its row text.  The content of a chunk is the row texts joined by     *)
(* "\n".                                                                   *)
(***************************************************************************)
ROW_BUDGET == 500
MaxRows == 4
RowTokenCounts == {0, 200, 300, 600}
HeaderLine == [row |-> 0, tokens |-> 0]
\* the separator "\n" of the join, as a line that is no line of the file
Newline == [row |-> -1, tokens |-> 0]

\* the data rows of a file: row i of the file with each possible token count
RowLists ==
    UNION { { [i \in 1..n |-> [row |-> i, tokens |-> f[i]]] :
                f \in [1..n -> RowTokenCounts] } : n \in 0..MaxRows }

\* "\n".join(current_chunk)
RECURSIVE JoinRows(_)
JoinRows(rows) ==
    IF Len(rows) = 0 THEN <<>>
    ELSE IF Len(rows) = 1 THEN <<rows[1]>>
    ELSE <<rows[1], Newline>> \o JoinRows(Tail(rows))

\* faulty variant of OverBudget: looks at the running chunk alone
OverBudgetBeforeRow(tokens, row_tokens) == tokens > ROW_BUDGET
\* the test of line 84
OverBudget(tokens, row_tokens) == tokens + row_tokens > ROW_BUDGET

\* faulty variant of FlushFinal: the last batch is dropped
DropFinal(cs, rows, id) == cs
\* lines 96-100: the final partial batch
FlushFinal(cs, rows, id) ==
    IF Len(rows) > 0
    THEN Append(cs, [chunk_id |-> id, content |-> JoinRows(rows)])
    ELSE cs

CvIdle ==
    /\ file_obj = <<>>
    /\ reader = <<>>
    /\ current_chunk = <<>>
    /\ current_tokens = 0
    /\ csv_chunk_id = 0
    /\ csv_chunks = <<>>
    /\ csv_pc = "idle"

\* the file handed to csv_chunker: a header line and the data rows
CvInit ==
    /\ file_obj \in { <<HeaderLine>> \o rows : rows \in RowLists }
    /\ reader = file_obj
    /\ current_chunk = <<>>
    /\ current_tokens = 0
    /\ csv_chunk_id = 0
    /\ csv_chunks = <<>>
    /\ csv_pc = "header"

\* lines 74-78: header = next(reader) and the initial locals
CsvReadHeader ==
    /\ csv_pc = "header"
    /\ reader' = Tail(reader)
    /\ current_chunk' = <<>>
    /\ current_tokens' = 0
    /\ csv_chunk_id' = 0
    /\ csv_chunks' = <<>>
    /\ csv_pc' = "rows"
    /\ UNCHANGED file_obj
    /\ UNCHANGED cv_frame

\* lines 80-94: one iteration of the for loop
CsvRow ==
    /\ csv_pc = "rows"
    /\ Len(reader) > 0
    /\ LET row == Head(reader)
           row_tokens == row.tokens
           closes == OverBudget(current_tokens, row_tokens)
       IN /\ csv_chunks' =
                 IF closes
                 THEN Append(csv_chunks, [chunk_id |-> csv_chunk_id,
                                          content |-> JoinRows(current_chunk)])
                 ELSE csv_chunks
          /\ csv_chunk_id' = IF closes THEN csv_chunk_id + 1 ELSE csv_chunk_id
          /\ current_chunk' =
                 IF closes THEN <<row>> ELSE Append(current_chunk, row)
          /\ current_tokens' =
                 IF closes THEN row_tokens ELSE current_tokens + row_tokens
    /\ reader' = Tail(reader)
    /\ UNCHANGED <<file_obj, csv_pc>>
    /\ UNCHANGED cv_frame

\* lines 96-102: the loop has ended; flush and return
CsvReturn ==
    /\ csv_pc = "rows"
    /\ Len(reader) = 0
    /\ csv_chunks' = FlushFinal(csv_chunks, current_chunk, csv_chunk_id)
    /\ csv_pc' = "done"
    /\ UNCHANGED <<file_obj, reader, current_chunk, current_tokens,
                   csv_chunk_id>>
    /\ UNCHANGED cv_frame

(***************************************************************************)
(* Index resolution: src/vector_manager.py VectorDBManager.__init__,       *)
(* lines 5-57.  An index name is a sequence of one-character strings.      *)
(* Several managers may be under construction at once; the provider's      *)
(* calls may fail.                                                         *)
(***************************************************************************)
DEFAULT_DIMENSION == 1024
DEFAULT_METRIC == "cosine"
MaxConstructions == 2
\* the managers that may be under construction at the same time
Managers == {1, 2}
Dimensions == {384, DEFAULT_DIMENSION}
NoDimension == 0
BaseName == <<"b">>
DigitChars == <<"0", "1", "2", "3", "4", "5", "6", "7", "8", "9">>

\* str(dimension) inside the f-string of line 25
RECURSIVE DecimalString(_)
DecimalString(n) ==
    IF n < 10 THEN <<DigitChars[n + 1]>>
    ELSE DecimalString(n \div 10) \o <<DigitChars[(n % 10) + 1]>>

\* line 25: f"{target_index}-{dimension}"
Suggested(name, dimension) == name \o <<"-">> \o DecimalString(dimension)

IndexNames == {BaseName} \cup { Suggested(BaseName, d) : d \in Dimensions }
RequestedNames == {BaseName, Suggested(BaseName, DEFAULT_DIMENSION)}

\* the provider holds at most one index per name
ProviderStates ==
    { { [name |-> n, dimension |-> f[n], metric |-> DEFAULT_METRIC] :
          n \in { m \in IndexNames : f[m] # NoDimension } } :
        f \in [IndexNames -> Dimensions \cup {NoDimension}] }

ListedNames(indexes) == { i.name : i \in indexes }
IndexNamed(indexes, name) == CHOOSE i \in indexes : i.name = name

\* faulty variant of DerivedNeedsCreate: the derived index is always created
DerivedAlwaysCreated(target, existing) == TRUE
\* lines 32-33: the derived index is created when the listing lacks it
DerivedNeedsCreate(target, existing) == target \notin existing

\* the settings of a deployment: PINECONE_INDEX (<<>> when the variable is not
\* set) and EMBED_DIM
IndexSettings == {<<>>} \cup RequestedNames

\* app.py line 30 with config.py lines 12 and 27: the manager of /upload is
\* constructed with the configured name, "biz-analyst-1024" by default, and
\* dimension EMBED_DIM
UploadManagerArgs(pinecone_index, embed_dim) ==
    [index_name |-> IF pinecone_index = <<>>
                    THEN Suggested(BaseName, DEFAULT_DIMENSION)
                    ELSE pinecone_index,
     dimension |-> embed_dim]

\* query_llm.py lines 13 and 78: the manager of a query is constructed with
\* the configured name, "biz-analyst" by default, and no dimension argument
QueryManagerArgs(pinecone_index) ==
    [index_name |-> IF pinecone_index = <<>> THEN BaseName ELSE pinecone_index,
     dimension |-> DEFAULT_DIMENSION]

NoArgs == [index_name |-> <<>>, dimension |-> NoDimension, metric |-> None]

IxIdle ==
    /\ pinecone_indexes = {}
    /\ ix_pc = [p \in Managers |-> "idle"]
    /\ ix_args = [p \in Managers |-> NoArgs]
    /\ existing_indexes = [p \in Managers |-> {}]
    /\ target_index = [p \in Managers |-> <<>>]
    /\ needs_create = [p \in Managers |-> FALSE]
    /\ create_calls = [p \in Managers |-> <<>>]
    /\ ix_started = [p \in Managers |-> 0]
    /\ ix_clock = 0
    /\ ix_history = <<>>

IxInit ==
    /\ pinecone_indexes \in ProviderStates
    /\ ix_pc = [p \in Managers |-> "idle"]
    /\ ix_args = [p \in Managers |-> NoArgs]
    /\ existing_indexes = [p \in Managers |-> {}]
    /\ target_index = [p \in Managers |-> <<>>]
    /\ needs_create = [p \in Managers |-> FALSE]
    /\ create_calls = [p \in Managers |-> <<>>]
    /\ ix_started = [p \in Managers |-> 0]
    /\ ix_clock = 0
    /\ ix_history = <<>>

UnderConstruction == { p \in Managers : ix_pc[p] # "idle" }

\* the record of a construction that ended, with what it bound to (if any) and
\* whether the provider held the name it resolved to when it ended
Ended(p, outcome, bound, calls) ==
    [index_name |-> ix_args[p].index_name,
     dimension |-> ix_args[p].dimension,
     existing |-> existing_indexes[p],
     outcome |-> outcome,
     bound |-> bound,
     creates |-> calls,
     started |-> ix_started[p],
     ended |-> ix_clock + 1,
     taken |-> target_index[p] \in ListedNames(pinecone_indexes)]

\* lines 5-11: VectorDBManager(api_key, index_name, dimension, metric)
IxConstruct(p, index_name, dimension) ==
    /\ ix_pc[p] = "idle"
    /\ Len(ix_history) + Cardinality(UnderConstruction) < MaxConstructions
    /\ ix_args' = [ix_args EXCEPT ![p] =
           [index_name |-> index_name, dimension |-> dimension,
            metric |-> DEFAULT_METRIC]]
    /\ existing_indexes' = [existing_indexes EXCEPT ![p] = {}]
    /\ target_index' = [target_index EXCEPT ![p] = index_name]
    /\ needs_create' = [needs_create EXCEPT ![p] = FALSE]
    /\ create_calls' = [create_calls EXCEPT ![p] = <<>>]
    /\ ix_started' = [ix_started EXCEPT ![p] = ix_clock + 1]
    /\ ix_clock' = ix_clock + 1
    /\ ix_pc' = [ix_pc EXCEPT ![p] = "list"]
    /\ UNCHANGED <<pinecone_indexes, ix_history>>
    /\ UNCHANGED ix_frame

\* lines 14-19 and 38-39: list_indexes and the membership test
IxList(p) ==
    /\ ix_pc[p] = "list"
    /\ LET listed == ListedNames(pinecone_indexes)
           exists == ix_args[p].index_name \in listed
       IN /\ existing_indexes' = [existing_indexes EXCEPT ![p] = listed]
          /\ needs_create' = [needs_create EXCEPT ![p] = ~exists]
          /\ ix_pc' = [ix_pc EXCEPT ![p] =
                           IF exists THEN "describe" ELSE "create"]
    /\ UNCHANGED <<pinecone_indexes, ix_args, target_index, create_calls,
                   ix_started, ix_clock, ix_history>>
    /\ UNCHANGED ix_frame

\* line 14: list_indexes raises and the constructor with it
IxListFails(p) ==
    /\ ix_pc[p] = "list"
    /\ ix_history' = Append(ix_history, Ended(p, "raised", None, <<>>))
    /\ ix_clock' = ix_clock + 1
    /\ ix_pc' = [ix_pc EXCEPT ![p] = "idle"]
    /\ UNCHANGED <<pinecone_indexes, ix_args, existing_indexes, target_index,
                   needs_create, create_calls, ix_started>>
    /\ UNCHANGED ix_frame

\* lines 22-34: describe_index answers; reported is the dimension it gives,
\* or NoDimension when the description carries none
IxDescribe(p, reported) ==
    /\ ix_pc[p] = "describe"
    /\ reported \in
          {IndexNamed(pinecone_indexes, target_index[p]).dimension, NoDimension}
    /\ LET dimension == ix_args[p].dimension
           mismatch == reported # NoDimension /\ reported # dimension
           suggested == Suggested(target_index[p], dimension)
           creates == mismatch
                      /\ DerivedNeedsCreate(suggested, existing_indexes[p])
       IN /\ target_index' = [target_index EXCEPT ![p] =
                 IF mismatch THEN suggested ELSE @]
          /\ needs_create' = [needs_create EXCEPT ![p] = creates]
          /\ ix_pc' = [ix_pc EXCEPT ![p] = IF creates THEN "create" ELSE "bind"]
    /\ UNCHANGED <<pinecone_indexes, ix_args, existing_indexes, create_calls,
                   ix_started, ix_clock, ix_history>>
    /\ UNCHANGED ix_frame

\* lines 35-37: describe_index raises; the except clause passes
IxDescribeFails(p) ==
    /\ ix_pc[p] = "describe"
    /\ ix_pc' = [ix_pc EXCEPT ![p] = "bind"]
    /\ UNCHANGED <<pinecone_indexes, ix_args, existing_indexes, target_index,
                   needs_create, create_calls, ix_started, ix_clock,
                   ix_history>>
    /\ UNCHANGED ix_frame

\* the create_index call of lines 41-51
CreateCall(p) ==
    [name |-> target_index[p], dimension |-> ix_args[p].dimension,
     metric |-> ix_args[p].metric]

\* lines 41-51: create_index succeeds
IxCreate(p) ==
    /\ ix_pc[p] = "create"
    /\ needs_create[p]
    /\ target_index[p] \notin ListedNames(pinecone_indexes)
    /\ pinecone_indexes' = pinecone_indexes \cup {CreateCall(p)}
    /\ create_calls' = [create_calls EXCEPT ![p] = Append(@, CreateCall(p))]
    /\ ix_pc' = [ix_pc EXCEPT ![p] = "bind"]
    /\ UNCHANGED <<ix_args, existing_indexes, target_index, needs_create,
                   ix_started, ix_clock, ix_history>>
    /\ UNCHANGED ix_frame

\* lines 41-51: create_index raises (the provider is unavailable, or the name
\* has been taken since the listing) and the constructor with it
IxCreateFails(p) ==
    /\ ix_pc[p] = "create"
    /\ needs_create[p]
    /\ ix_history' = Append(ix_history,
           Ended(p, "raised", None, Append(create_calls[p], CreateCall(p))))
    /\ ix_clock' = ix_clock + 1
    /\ ix_pc' = [ix_pc EXCEPT ![p] = "idle"]
    /\ create_calls' = [create_calls EXCEPT ![p] = Append(@, CreateCall(p))]
    /\ UNCHANGED <<pinecone_indexes, ix_args, existing_indexes, target_index,
                   needs_create, ix_started>>
    /\ UNCHANGED ix_frame

\* lines 54-57: self.index_name = target_index and the constructor returns
IxBind(p) ==
    /\ ix_pc[p] = "bind"
    /\ ix_history' = Append(ix_history,
           Ended(p, "bound", target_index[p], create_calls[p]))
    /\ ix_clock' = ix_clock + 1
    /\ ix_pc' = [ix_pc EXCEPT ![p] = "idle"]
    /\ UNCHANGED <<pinecone_indexes, ix_args, existing_indexes, target_index,
                   needs_create, create_calls, ix_started>>
    /\ UNCHANGED ix_frame

(***************************************************************************)
(* Text normalisation: src/text_conversion.py sanitize_text, lines 22-69.  *)
(* A string is a sequence of code points; a byte string a sequence of      *)
(* byte values.                                                            *)
(***************************************************************************)
Backslash == 92
LetterX == 120
Space == 32
QuestionMark == 63
Replacement == 65533
MaxPieces == 3

\* the argument of a call: None, or a string
NoneArg == [is_none |-> TRUE, text |-> <<>>]
Str(text) == [is_none |-> FALSE, text |-> text]

\* str.encode("utf-8") of one character (code points below 65536)
Utf8Encode(cp) ==
    IF cp < 128 THEN <<cp>>
    ELSE IF cp < 2048 THEN <<192 + (cp \div 64), 128 + (cp % 64)>>
    ELSE <<224 + (cp \div 4096), 128 + ((cp \div 64) % 64), 128 + (cp % 64)>>

RECURSIVE Utf8EncodeAll(_)
Utf8EncodeAll(text) ==
    IF Len(text) = 0 THEN <<>>
    ELSE Utf8Encode(Head(text)) \o Utf8EncodeAll(Tail(text))

\* the value of a hexadecimal digit, -1 for any other character
HexVal(c) ==
    IF c >= 48 /\ c <= 57 THEN c - 48
    ELSE IF c >= 97 /\ c <= 102 THEN c - 87
    ELSE IF c >= 65 /\ c <= 70 THEN c - 55
    ELSE -1

\* the value of the n hexadecimal digits at b[i..], -1 when they are not there
RECURSIVE HexRun(_, _, _, _)
HexRun(b, i, n, acc) ==
    IF n = 0 THEN acc
    ELSE IF i > Len(b) THEN -1
    ELSE IF HexVal(b[i]) < 0 THEN -1
    ELSE HexRun(b, i + 1, n - 1, (acc * 16) + HexVal(b[i]))

IsOctal(c) == c >= 48 /\ c <= 55

\* how many octal digits (at most 3) stand at b[i..]
OctalLen(b, i) ==
    IF i > Len(b) \/ ~IsOctal(b[i]) THEN 0
    ELSE IF i + 1 > Len(b) \/ ~IsOctal(b[i + 1]) THEN 1
    ELSE IF i + 2 > Len(b) \/ ~IsOctal(b[i + 2]) THEN 2
    ELSE 3

RECURSIVE OctalRun(_, _, _, _)
OctalRun(b, i, n, acc) ==
    IF n = 0 THEN acc ELSE OctalRun(b, i + 1, n - 1, (acc * 8) + (b[i] - 48))

\* the one-character escapes of the unicode_escape codec: \\ \' \" \a \b \f
\* \n \r \t \v
SimpleEscapes ==
    (92 :> 92) @@ (39 :> 39) @@ (34 :> 34) @@ (97 :> 7) @@ (98 :> 8) @@
    (102 :> 12) @@ (110 :> 10) @@ (114 :> 13) @@ (116 :> 9) @@ (118 :> 11)

Prepend(cs, r) == IF r.ok THEN [ok |-> TRUE, text |-> cs \o r.text] ELSE r

\* codecs.decode(bytes, "unicode_escape") from position i: a byte that is no
\* escape is one latin-1 character, a truncated \x, \u or \U escape and a
\* trailing backslash are errors, an unknown escape is kept as it stands.
\* (\N{...} needs a character name; no name is spelled by the bytes explored.)
RECURSIVE UnicodeEscapeFrom(_, _)
UnicodeEscapeFrom(b, i) ==
    IF i > Len(b) THEN [ok |-> TRUE, text |-> <<>>]
    ELSE IF b[i] # Backslash THEN Prepend(<<b[i]>>, UnicodeEscapeFrom(b, i + 1))
    ELSE IF i = Len(b) THEN [ok |-> FALSE, text |-> <<>>]
    ELSE LET n == b[i + 1]
         IN IF n \in DOMAIN SimpleEscapes
            THEN Prepend(<<SimpleEscapes[n]>>, UnicodeEscapeFrom(b, i + 2))
            ELSE IF n = 10 THEN UnicodeEscapeFrom(b, i + 2)
            ELSE IF IsOctal(n)
            THEN LET k == OctalLen(b, i + 1)
                 IN Prepend(<<OctalRun(b, i + 1, k, 0)>>,
                            UnicodeEscapeFrom(b, i + 1 + k))
            ELSE IF n = LetterX
            THEN IF HexRun(b, i + 2, 2, 0) < 0 THEN [ok |-> FALSE, text |-> <<>>]
                 ELSE Prepend(<<HexRun(b, i + 2, 2, 0)>>,
                              UnicodeEscapeFrom(b, i + 4))
            ELSE IF n = 117
            THEN IF HexRun(b, i + 2, 4, 0) < 0 THEN [ok |-> FALSE, text |-> <<>>]
                 ELSE Prepend(<<HexRun(b, i + 2, 4, 0)>>,
                              UnicodeEscapeFrom(b, i + 6))
            ELSE IF n = 85
            THEN IF HexRun(b, i + 2, 8, 0) < 0 \/ HexRun(b, i + 2, 8, 0) > 1114111
                 THEN [ok |-> FALSE, text |-> <<>>]
                 ELSE Prepend(<<HexRun(b, i + 2, 8, 0)>>,
                              UnicodeEscapeFrom(b, i + 10))
            ELSE IF n = 78 THEN [ok |-> FALSE, text |-> <<>>]
            ELSE Prepend(<<Backslash, n>>, UnicodeEscapeFrom(b, i + 2))

\* codecs.decode(orig, "unicode_escape"): the str is taken as its UTF-8 bytes
UnicodeEscape(orig) == UnicodeEscapeFrom(Utf8EncodeAll(orig), 1)

\* r"\x" in orig
HasBackslashX(text) ==
    \E i \in 1..(Len(text) - 1) : text[i] = Backslash /\ text[i + 1] = LetterX

\* faulty variant of EscapePass: a failed decode is not caught
EscapePassUnguarded(orig) ==
    IF HasBackslashX(orig)
    THEN IF UnicodeEscape(orig).ok
         THEN [raised |-> FALSE, text |-> UnicodeEscape(orig).text]
         ELSE [raised |-> TRUE, text |-> orig]
    ELSE [raised |-> FALSE, text |-> orig]
\* lines 36-42: step 1, with the fallback t = orig of lines 39-40
EscapePass(orig) ==
    IF HasBackslashX(orig)
    THEN IF UnicodeEscape(orig).ok
         THEN [raised |-> FALSE, text |-> UnicodeEscape(orig).text]
         ELSE [raised |-> FALSE, text |-> orig]
    ELSE [raised |-> FALSE, text |-> orig]

\* bytes 0x80-0x9F that cp1252 defines, with the character each decodes to
Cp1252High ==
    (128 :> 8364) @@ (130 :> 8218) @@ (131 :> 402) @@ (132 :> 8222) @@
    (133 :> 8230) @@ (134 :> 8224) @@ (135 :> 8225) @@ (136 :> 710) @@
    (137 :> 8240) @@ (138 :> 352) @@ (139 :> 8249) @@ (140 :> 338) @@
    (142 :> 381) @@ (145 :> 8216) @@ (146 :> 8217) @@ (147 :> 8220) @@
    (148 :> 8221) @@ (149 :> 8226) @@ (150 :> 8211) @@ (151 :> 8212) @@
    (152 :> 732) @@ (153 :> 8482) @@ (154 :> 353) @@ (155 :> 8250) @@
    (156 :> 339) @@ (158 :> 382) @@ (159 :> 376)

\* lines 46-51: bytes([b]).decode("cp1252", errors="replace")
Cp1252(b) ==
    IF b < 128 \/ b >= 160 THEN b
    ELSE IF b \in DOMAIN Cp1252High THEN Cp1252High[b]
    ELSE Replacement

\* line 52: re.sub(r"\\x([0-9A-Fa-f]{2})", _repl_hex, t), from position i
RECURSIVE ReplaceHexFrom(_, _)
ReplaceHexFrom(t, i) ==
    IF i > Len(t) THEN <<>>
    ELSE IF /\ t[i] = Backslash
            /\ i + 1 <= Len(t)
            /\ t[i + 1] = LetterX
            /\ HexRun(t, i + 2, 2, 0) >= 0
         THEN <<Cp1252(HexRun(t, i + 2, 2, 0))>> \o ReplaceHexFrom(t, i + 4)
         ELSE <<t[i]>> \o ReplaceHexFrom(t, i + 1)

\* step 2
LeftoverPass(t) == ReplaceHexFrom(t, 1)

\* the number of continuation bytes a UTF-8 lead byte asks for, 0 when the
\* byte cannot start a sequence
ContinuationsOf(lead) ==
    IF lead >= 194 /\ lead <= 223 THEN 1
    ELSE IF lead >= 224 /\ lead <= 239 THEN 2
    ELSE IF lead >= 240 /\ lead <= 244 THEN 3
    ELSE 0

\* the k-th byte after the lead is a continuation the decoder accepts
ContinuationOk(lead, k, x) ==
    IF k = 1 /\ lead = 224 THEN x >= 160 /\ x <= 191
    ELSE IF k = 1 /\ lead = 237 THEN x >= 128 /\ x <= 159
    ELSE IF k = 1 /\ lead = 240 THEN x >= 144 /\ x <= 191
    ELSE IF k = 1 /\ lead = 244 THEN x >= 128 /\ x <= 143
    ELSE x >= 128 /\ x <= 191

\* how many acceptable continuation bytes follow the lead at b[i], up to n
RECURSIVE ContinuationRun(_, _, _, _)
ContinuationRun(b, i, k, n) ==
    IF k > n \/ i + k > Len(b) THEN k - 1
    ELSE IF ~ContinuationOk(b[i], k, b[i + k]) THEN k - 1
    ELSE ContinuationRun(b, i, k + 1, n)

RECURSIVE ContinuationBits(_, _, _, _)
ContinuationBits(b, i, k, acc) ==
    IF k = 0 THEN acc
    ELSE ContinuationBits(b, i + 1, k - 1, (acc * 64) + (b[i] - 128))

\* bytes.decode("utf-8", errors="replace") from position i: every maximal
\* ill-formed run becomes one replacement character
RECURSIVE Utf8DecodeFrom(_, _)
Utf8DecodeFrom(b, i) ==
    IF i > Len(b) THEN <<>>
    ELSE IF b[i] < 128 THEN <<b[i]>> \o Utf8DecodeFrom(b, i + 1)
    ELSE LET n == ContinuationsOf(b[i])
             k == ContinuationRun(b, i, 1, n)
             lead_bits == IF n = 1 THEN b[i] - 192
                          ELSE IF n = 2 THEN b[i] - 224 ELSE b[i] - 240
         IN IF n = 0 THEN <<Replacement>> \o Utf8DecodeFrom(b, i + 1)
            ELSE IF k = n
            THEN <<ContinuationBits(b, i + 1, n, lead_bits)>>
                 \o Utf8DecodeFrom(b, i + 1 + n)
            ELSE <<Replacement>> \o Utf8DecodeFrom(b, i + 1 + k)

CountOf(t, c) == Cardinality({ i \in 1..Len(t) : t[i] = c })

\* lines 57-64: step 3.  re.search(r"[ÃÂ]", t) looks for the characters 195
\* and 194; t.encode("latin1", errors="replace") turns a character above 255
\* into "?"
MojibakePass(t) ==
    IF \E i \in 1..Len(t) : t[i] \in {195, 194}
    THEN LET latin1 == [i \in 1..Len(t) |->
                          IF t[i] < 256 THEN t[i] ELSE QuestionMark]
             candidate == Utf8DecodeFrom(latin1, 1)
         IN IF CountOf(candidate, Replacement) <= CountOf(t, Replacement)
            THEN candidate
            ELSE t
    ELSE t

\* the characters line 67 keeps: [\x09\x0A\x0D\x20-\x7E\x80-\xFF]
Printable(c) ==
    c \in {9, 10, 13} \/ (c >= 32 /\ c <= 126) \/ (c >= 128 /\ c <= 255)

\* the kept characters str.split() takes as whitespace
Whitespace == {9, 10, 13, Space, 133, 160}

\* " ".join(t.split()) over the characters from position i; out is the text
\* built so far
RECURSIVE JoinSplit(_, _, _)
JoinSplit(t, i, out) ==
    IF i > Len(t)
    THEN IF Len(out) > 0 /\ out[Len(out)] = Space
         THEN SubSeq(out, 1, Len(out) - 1)
         ELSE out
    ELSE IF t[i] \in Whitespace
         THEN IF Len(out) > 0 /\ out[Len(out)] # Space
              THEN JoinSplit(t, i + 1, Append(out, Space))
              ELSE JoinSplit(t, i + 1, out)
         ELSE JoinSplit(t, i + 1, Append(out, t[i]))

\* lines 67-69: step 4
CollapsePass(t) ==
    JoinSplit([i \in 1..Len(t) |-> IF Printable(t[i]) THEN t[i] ELSE Space],
              1, <<>>)

\* sanitize_text(s) for a string s
sanitize_text(text) ==
    CollapsePass(MojibakePass(LeftoverPass(EscapePass(text).text)))

\* the pieces the explored inputs are put together from: a letter, a space,
\* a control character, a backslash, whole, doubled and malformed \xNN
\* escapes, the mojibake markers with and without their second byte, and a
\* character of the \x80-\xFF range
Pieces ==
    { <<65>>, <<Space>>, <<7>>, <<Backslash>>,
      <<Backslash, LetterX>>,
      <<Backslash, LetterX, 52, 49>>,
      <<Backslash, LetterX, 53, 99>>,
      <<Backslash, LetterX, 56, 52>>,
      <<LetterX, 52, 49>>,
      <<195, 131>>, <<194, 169>>, <<195>>, <<169>>, <<233>> }

RECURSIVE PieceStrings(_)
PieceStrings(n) ==
    IF n = 0 THEN {<<>>}
    ELSE { p \o rest : p \in Pieces, rest \in PieceStrings(n - 1) }

Inputs == UNION { PieceStrings(n) : n \in 0..MaxPieces }

SnIdle ==
    /\ sn_arg = NoneArg
    /\ sn_orig = <<>>
    /\ sn_t = <<>>
    /\ sn_pc = "idle"
    /\ sn_results = <<>>

SnInit ==
    /\ sn_arg \in {NoneArg} \cup { Str(x) : x \in Inputs }
    /\ sn_orig = <<>>
    /\ sn_t = <<>>
    /\ sn_pc = "call"
    /\ sn_results = <<>>

\* lines 30-31: s is None
SanitizeNone ==
    /\ sn_pc = "call"
    /\ sn_arg.is_none
    /\ sn_results' = Append(sn_results, <<>>)
    /\ sn_pc' = "returned"
    /\ UNCHANGED <<sn_arg, sn_orig, sn_t>>
    /\ UNCHANGED sn_frame

\* lines 32-42: orig = str(s) and step 1
SanitizeEscapes ==
    /\ sn_pc = "call"
    /\ ~sn_arg.is_none
    /\ sn_orig' = sn_arg.text
    /\ LET r == EscapePass(sn_arg.text)
       IN /\ sn_t' = r.text
          /\ sn_pc' = IF r.raised THEN "raised" ELSE "leftover"
    /\ UNCHANGED <<sn_arg, sn_results>>
    /\ UNCHANGED sn_frame

\* lines 46-52: step 2
SanitizeLeftover ==
    /\ sn_pc = "leftover"
    /\ sn_t' = LeftoverPass(sn_t)
    /\ sn_pc' = "mojibake"
    /\ UNCHANGED <<sn_arg, sn_orig, sn_results>>
    /\ UNCHANGED sn_frame

\* lines 57-64: step 3
SanitizeMojibake ==
    /\ sn_pc = "mojibake"
    /\ sn_t' = MojibakePass(sn_t)
    /\ sn_pc' = "collapse"
    /\ UNCHANGED <<sn_arg, sn_orig, sn_results>>
    /\ UNCHANGED sn_frame

\* lines 67-69: step 4 and the return
SanitizeCollapse ==
    /\ sn_pc = "collapse"
    /\ sn_t' = CollapsePass(sn_t)
    /\ sn_results' = Append(sn_results, CollapsePass(sn_t))
    /\ sn_pc' = "returned"
    /\ UNCHANGED <<sn_arg, sn_orig>>
    /\ UNCHANGED sn_frame

\* the caller hands the returned string to sanitize_text once more
SanitizeAgain ==
    /\ sn_pc = "returned"
    /\ Len(sn_results) = 1
    /\ sn_arg' = Str(sn_results[1])
    /\ sn_orig' = <<>>
    /\ sn_t' = <<>>
    /\ sn_pc' = "call"
    /\ UNCHANGED sn_results
    /\ UNCHANGED sn_frame

(***************************************************************************)
(* Ingestion: POST /upload (app.py 60-129) with embed_chunks               *)
(* (src/embeddings.py 34-53), and ingest_csv_to_pinecone                   *)
(* (src/csv_ingestion.py 84-137) with get_embedding (src/embeddings.py     *)
(* 21-32).  A vector is its id and what its values are.                    *)
(***************************************************************************)
INGEST_BATCH_SIZE == 200
MaxIngestRows == 2
Embedding == "embedding"
ZeroVector == "zero"

\* the vectors the provider returned for these rows
Embedded(rows) == [i \in 1..Len(rows) |-> [id |-> rows[i], values |-> Embedding]]

\* faulty variant of EmbedFailure: zero vectors stand in for the embeddings
EmbedFailureZeroFilled(rows) ==
    [raised |-> FALSE,
     vectors |-> [i \in 1..Len(rows) |-> [id |-> rows[i], values |-> ZeroVector]]]
\* _co.embed raises inside embed_chunks or get_embedding; neither catches
EmbedFailure(rows) == [raised |-> TRUE, vectors |-> <<>>]

\* the records one accepted upsert_vectors call leaves in the index
IngestRecords(namespace, vectors) ==
    { [namespace |-> namespace, id |-> vectors[i].id,
       values |-> vectors[i].values] : i \in 1..Len(vectors) }

\* csv_ingestion.py 131-132: batch_iterable(vectors, BATCH_SIZE) and one
\* upsert_vectors call per batch
CsvUpsertCalls(namespace, vectors) ==
    LET slices == Batches(Len(vectors), INGEST_BATCH_SIZE)
    IN [b \in 1..Len(slices) |->
           [namespace |-> namespace,
            vectors |-> [k \in 1..Len(slices[b]) |-> vectors[slices[b][k]]]]]

IgIdle ==
    /\ ig_path = "none"
    /\ ig_pc = "idle"
    /\ ig_namespace = DefaultNamespace
    /\ ig_rows = <<>>
    /\ ig_vectors = <<>>
    /\ ig_upserts = <<>>
    /\ ig_store = {}
    /\ ig_before = {}
    /\ ig_outcome = "none"
    /\ ig_embed_failed = FALSE
    /\ ig_log = <<>>

\* a file of n rows arrives at POST /upload (path "upload", the namespace of
\* app.py line 89) or at ingest_csv_to_pinecone (path "csv", NAMESPACE)
IngestBegin(path, namespace, n) ==
    /\ ig_pc = "idle"
    /\ path = "csv" => namespace = DefaultNamespace
    /\ ig_path' = path
    /\ ig_pc' = "parse"
    /\ ig_namespace' = namespace
    /\ ig_rows' = [i \in 1..n |-> i]
    /\ ig_vectors' = <<>>
    /\ ig_upserts' = <<>>
    /\ ig_before' = ig_store
    /\ ig_outcome' = "none"
    /\ ig_embed_failed' = FALSE
    /\ ig_log' = <<>>
    /\ UNCHANGED ig_store
    /\ UNCHANGED ig_frame

\* app.py 64-75: parse_file and the chunk dicts; csv_ingestion.py 92-109:
\* read_csv and the VectorDBManager constructor
IngestParse ==
    /\ ig_pc = "parse"
    /\ ig_pc' = "embed"
    /\ ig_log' = ig_log \o (IF ig_path = "csv"
                            THEN <<"parse", "construct_manager">>
                            ELSE <<"parse">>)
    /\ UNCHANGED <<ig_path, ig_namespace, ig_rows, ig_vectors, ig_upserts,
                   ig_store, ig_before, ig_outcome, ig_embed_failed>>
    /\ UNCHANGED ig_frame

\* the file cannot be parsed: /upload answers HTTP 500, ingest_csv_to_pinecone
\* raises
IngestParseFails ==
    /\ ig_pc = "parse"
    /\ ig_pc' = "done"
    /\ ig_outcome' = "error"
    /\ ig_log' = Append(ig_log, "parse_raises")
    /\ UNCHANGED <<ig_path, ig_namespace, ig_rows, ig_vectors, ig_upserts,
                   ig_store, ig_before, ig_embed_failed>>
    /\ UNCHANGED ig_frame

\* the rows the next call of the embedding provider is about: all of them in
\* embed_chunks, the next one in the loop of ingest_csv_to_pinecone
RowsToEmbed ==
    IF ig_path = "upload" THEN ig_rows
    ELSE IF Len(ig_vectors) < Len(ig_rows)
         THEN <<ig_rows[Len(ig_vectors) + 1]>>
         ELSE <<>>

\* embedding is over: embed_chunks returned, or the loop has no row left
EmbeddingComplete(vectors) ==
    ig_path = "upload" \/ Len(vectors) = Len(ig_rows)

\* app.py 76-88 with embed_chunks: one provider call for all chunks (none
\* when there are no chunks); csv_ingestion.py 112-126: one call for the
\* next row, or no row is left
IngestEmbed ==
    /\ ig_pc = "embed"
    /\ LET vectors == IF ig_path = "upload" THEN Embedded(ig_rows)
                      ELSE ig_vectors \o Embedded(RowsToEmbed)
       IN /\ ig_vectors' = vectors
          /\ ig_pc' = IF EmbeddingComplete(vectors) THEN "upsert" ELSE "embed"
    /\ ig_log' = IF Len(RowsToEmbed) > 0 THEN Append(ig_log, "embed")
                 ELSE ig_log
    /\ UNCHANGED <<ig_path, ig_namespace, ig_rows, ig_upserts, ig_store,
                   ig_before, ig_outcome, ig_embed_failed>>
    /\ UNCHANGED ig_frame

\* the provider call fails: the exception leaves embed_chunks and is answered
\* with HTTP 500 by app.py 128-129, or leaves get_embedding and
\* ingest_csv_to_pinecone
IngestEmbedFails ==
    /\ ig_pc = "embed"
    /\ Len(RowsToEmbed) > 0
    /\ ig_embed_failed' = TRUE
    /\ LET r == EmbedFailure(RowsToEmbed)
           vectors == IF ig_path = "upload" THEN r.vectors
                      ELSE ig_vectors \o r.vectors
       IN IF r.raised
          THEN /\ ig_pc' = "done"
               /\ ig_outcome' = "error"
               /\ UNCHANGED ig_vectors
          ELSE /\ ig_vectors' = vectors
               /\ ig_pc' = IF EmbeddingComplete(vectors) THEN "upsert"
                           ELSE "embed"
               /\ UNCHANGED ig_outcome
    /\ ig_log' = Append(ig_log, "embed_raises")
    /\ UNCHANGED <<ig_path, ig_namespace, ig_rows, ig_upserts, ig_store,
                   ig_before>>
    /\ UNCHANGED ig_frame

\* app.py 90: vector_db.upsert_vectors(vectors, namespace=namespace);
\* csv_ingestion.py 131-132: one upsert_vectors call per batch of 200, none
\* for no vectors.  stored tells whether the provider took the batch: a
\* failed batch stores nothing and upsert_vectors still returns.
IngestUpsert(stored) ==
    /\ ig_pc = "upsert"
    /\ LET calls == IF ig_path = "csv"
                    THEN CsvUpsertCalls(ig_namespace, ig_vectors)
                    ELSE <<[namespace |-> ig_namespace, vectors |-> ig_vectors]>>
       IN /\ ig_upserts' = ig_upserts \o calls
          /\ ig_store' = IF stored /\ Len(calls) > 0
                         THEN { r \in ig_store :
                                  ~( /\ r.namespace = ig_namespace
                                     /\ \E i \in 1..Len(ig_vectors) :
                                           ig_vectors[i].id = r.id ) }
                              \cup IngestRecords(ig_namespace, ig_vectors)
                         ELSE ig_store
          /\ ig_log' = IF Len(calls) > 0 THEN Append(ig_log, "upsert")
                       ELSE ig_log
    /\ ig_pc' = "respond"
    /\ UNCHANGED <<ig_path, ig_namespace, ig_rows, ig_vectors, ig_before,
                   ig_outcome, ig_embed_failed>>
    /\ UNCHANGED ig_frame

\* app.py 92-127: the preview and the success message; csv_ingestion.py
\* 135-137: the manifest is returned
IngestRespond ==
    /\ ig_pc = "respond"
    /\ ig_pc' = "done"
    /\ ig_outcome' = "success"
    /\ UNCHANGED <<ig_path, ig_namespace, ig_rows, ig_vectors, ig_upserts,
                   ig_store, ig_before, ig_embed_failed, ig_log>>
    /\ UNCHANGED ig_frame

\* the request is over; the index keeps what it holds
IngestEnds ==
    /\ ig_pc = "done"
    /\ ig_path' = "none"
    /\ ig_pc' = "idle"
    /\ ig_namespace' = DefaultNamespace
    /\ ig_rows' = <<>>
    /\ ig_vectors' = <<>>
    /\ ig_upserts' = <<>>
    /\ ig_before' = ig_store
    /\ ig_outcome' = "none"
    /\ ig_embed_failed' = FALSE
    /\ ig_log' = <<>>
    /\ UNCHANGED ig_store
    /\ UNCHANGED ig_frame

(***************************************************************************)
(* CSV parsing: src/file_parser.py parse_csv, lines 10-38.  A cell is the  *)
(* text between two delimiters; the file has a header of distinct column   *)
(* names and no empty cell.                                                *)
(***************************************************************************)
MaxDataRows == 2
Header == <<"month", "units">>
CellTexts == {<<"7">>, <<"1", "2">>, <<"x">>, <<"'", "7", "'">>}
DataRows == SeqsOfLen(CellTexts, Len(Header))
CsvFiles ==
    UNION {[header : {Header}, rows : SeqsOfLen(DataRows, n)] : n \in 0..MaxDataRows}

NumCell(n) == [kind |-> "num", num |-> n, text |-> <<>>]
StrCell(text) == [kind |-> "str", num |-> 0, text |-> text]

IsDigits(text) ==
    /\ Len(text) > 0
    /\ \A i \in 1..Len(text) : text[i] \in SeqRange(DigitChars)

RECURSIVE DecimalValue(_)
DecimalValue(text) ==
    IF Len(text) = 0 THEN 0
    ELSE 10 * DecimalValue(SubSeq(text, 1, Len(text) - 1))
         + (CHOOSE d \in 0..9 : DigitChars[d + 1] = text[Len(text)])

RECURSIVE StripChars(_, _)
StripChars(text, set) ==
    IF Len(text) = 0 THEN text
    ELSE IF Head(text) \in set THEN StripChars(Tail(text), set)
    ELSE IF text[Len(text)] \in set
         THEN StripChars(SubSeq(text, 1, Len(text) - 1), set)
         ELSE text

\* line 33: .str.strip().str.strip('"\'')
StripQuotes(text) == StripChars(StripChars(text, {" "}), {"\"", "'"})

\* pd.read_csv, lines 18-22: the cells of one column; the column is an integer
\* column when every cell is a number, and a column of strings otherwise
ReadColumn(cells) ==
    IF Len(cells) > 0 /\ \A i \in 1..Len(cells) : IsDigits(cells[i])
    THEN [dtype |-> "int64",
          values |-> [i \in 1..Len(cells) |-> NumCell(DecimalValue(cells[i]))]]
    ELSE [dtype |-> "object",
          values |-> [i \in 1..Len(cells) |-> StrCell(cells[i])]]

\* faulty variant of ToNumeric: every cell is converted on its own
ToNumericPerCell(values) ==
    [i \in 1..Len(values) |->
        IF IsDigits(values[i].text)
        THEN NumCell(DecimalValue(values[i].text)) ELSE values[i]]
\* line 35: pd.to_numeric(df[col], errors='ignore') converts the column when
\* every value parses and returns it unchanged otherwise
ToNumeric(values) ==
    IF \A i \in 1..Len(values) : IsDigits(values[i].text)
    THEN [i \in 1..Len(values) |-> NumCell(DecimalValue(values[i].text))]
    ELSE values

\* line 38: df.to_dict(orient='records')
ToRecords(header, df, n) ==
    [i \in 1..n |-> [c \in SeqRange(header) |->
        df[CHOOSE k \in 1..Len(header) : header[k] = c].values[i]]]

PfIdle ==
    /\ pf_file = [header |-> <<>>, rows |-> <<>>]
    /\ pf_df = <<>>
    /\ pf_records = <<>>
    /\ pf_pc = "done"

\* parse_csv(file_obj) is called
PfInit ==
    /\ pf_file \in CsvFiles
    /\ pf_df = <<>>
    /\ pf_records = <<>>
    /\ pf_pc = "read"

\* lines 24-28: df = _read(file_obj); the header line becomes the columns
ParseRead ==
    /\ pf_pc = "read"
    /\ pf_df' = [k \in 1..Len(pf_file.header) |->
                    ReadColumn([i \in 1..Len(pf_file.rows) |-> pf_file.rows[i][k]])]
    /\ pf_pc' = "clean"
    /\ UNCHANGED <<pf_file, pf_records>>
    /\ UNCHANGED pf_frame

\* lines 31-38: the cleanup loop over the columns, then the records
ParseClean ==
    /\ pf_pc = "clean"
    /\ LET cleaned ==
             [k \in 1..Len(pf_df) |->
                 IF pf_df[k].dtype = "object"
                 THEN [dtype |-> "object",
                       values |-> ToNumeric(
                           [i \in 1..Len(pf_df[k].values) |->
                               StrCell(StripQuotes(pf_df[k].values[i].text))])]
                 ELSE pf_df[k]]
       IN /\ pf_df' = cleaned
          /\ pf_records' = ToRecords(pf_file.header, cleaned, Len(pf_file.rows))
    /\ pf_pc' = "done"
    /\ UNCHANGED pf_file
    /\ UNCHANGED pf_frame

(***************************************************************************)
(* Specifications.                                                         *)
(***************************************************************************)
NsInit == NsIdle /\ RwIdle /\ QlIdle /\ StIdle /\ CvIdle /\ IxIdle /\ SnIdle /\ IgIdle /\ PfIdle
NsNext ==
    \/ \E u \in Strings, f \in Strings : UploadDerive(u, f)
    \/ \E u \in Strings, f \in Strings : QueryDerive(u, f)
SpecNamespace == NsInit /\ [][NsNext]_vars

RollingInit == RwInit /\ NsIdle /\ QlIdle /\ StIdle /\ CvIdle /\ IxIdle /\ SnIdle /\ IgIdle /\ PfIdle
RollingNext ==
    \/ RollingStep
    \/ RollingReturn
SpecRolling == RollingInit /\ [][RollingNext]_vars

QueryInit == QlInit /\ NsIdle /\ RwIdle /\ StIdle /\ CvIdle /\ IxIdle /\ SnIdle /\ IgIdle /\ PfIdle
QueryNext ==
    \/ QueryConstruct
    \/ QueryEmbed
    \/ QueryEmbedFails
    \/ \E ms \in MatchLists : QueryRetrieve(ms)
    \/ QueryRetrieveFails
    \/ QueryAssemble
    \/ QueryShortCircuit
    \/ QueryBuildPrompt
    \/ \E response \in LlmOutputs : QueryGenerate(response)
    \/ QueryGenerateFails
    \/ QueryParseObject
    \/ QueryParseFallback
    \/ QueryParseRaises
SpecQuery == QueryInit /\ [][QueryNext]_vars

StoreInit == StIdle /\ NsIdle /\ RwIdle /\ QlIdle /\ CvIdle /\ IxIdle /\ SnIdle /\ IgIdle /\ PfIdle
StoreNext ==
    \/ \E ns \in UploadNamespaces, n \in 0..MaxVectors : UploadRequest(ns, n)
    \/ UploadFailsEarly
    \/ \E n \in 0..MaxVectors, bs \in BatchSizes, mw \in WorkerCounts :
          DirectUpsert(DefaultNamespace, n, bs, mw)
    \/ \E i \in 1..Len(uv_state) : BatchStart(i)
    \/ \E i \in 1..Len(uv_state) : BatchSucceed(i)
    \/ \E i \in 1..Len(uv_state) : BatchFail(i)
    \/ UpsertReturn
    \/ UploadRespond
    \/ CallEnds
    \/ \E ns \in StoreNamespaces \cup {None}, k \in 1..MaxTopK : StoreQuery(ns, k)
    \/ StoreQueryReturn
SpecStore == StoreInit /\ [][StoreNext]_vars

CsvInit == CvInit /\ NsIdle /\ RwIdle /\ QlIdle /\ StIdle /\ IxIdle /\ SnIdle /\ IgIdle /\ PfIdle
CsvNext ==
    \/ CsvReadHeader
    \/ CsvRow
    \/ CsvReturn
SpecCsv == CsvInit /\ [][CsvNext]_vars

IndexInit == IxInit /\ NsIdle /\ RwIdle /\ QlIdle /\ StIdle /\ CvIdle /\ SnIdle /\ IgIdle /\ PfIdle
IndexNext ==
    \/ \E p \in Managers, n \in RequestedNames, d \in Dimensions :
          IxConstruct(p, n, d)
    \/ \E p \in Managers : IxList(p)
    \/ \E p \in Managers : IxListFails(p)
    \/ \E p \in Managers, d \in Dimensions \cup {NoDimension} : IxDescribe(p, d)
    \/ \E p \in Managers : IxDescribeFails(p)
    \/ \E p \in Managers : IxCreate(p)
    \/ \E p \in Managers : IxCreateFails(p)
    \/ \E p \in Managers : IxBind(p)
SpecIndex == IndexInit /\ [][IndexNext]_vars

SanitizeInit == SnInit /\ NsIdle /\ RwIdle /\ QlIdle /\ StIdle /\ CvIdle /\ IxIdle /\ IgIdle /\ PfIdle
SanitizeNext ==
    \/ SanitizeNone
    \/ SanitizeEscapes
    \/ SanitizeLeftover
    \/ SanitizeMojibake
    \/ SanitizeCollapse
    \/ SanitizeAgain
SpecSanitize == SanitizeInit /\ [][SanitizeNext]_vars

UpsertInit == StIdle /\ NsIdle /\ RwIdle /\ QlIdle /\ CvIdle /\ IxIdle /\ SnIdle /\ IgIdle /\ PfIdle
UpsertNext ==
    \/ \E n \in 0..MaxUpsertVectors, bs \in BatchSizes, mw \in WorkerCounts :
          DirectUpsert(DefaultNamespace, n, bs, mw)
    \/ \E i \in 1..Len(uv_state) : BatchStart(i)
    \/ \E i \in 1..Len(uv_state) : BatchSucceed(i)
    \/ \E i \in 1..Len(uv_state) : BatchFail(i)
    \/ UpsertReturn
    \/ CallEnds
SpecUpsert == UpsertInit /\ [][UpsertNext]_vars

IngestInit == IgIdle /\ NsIdle /\ RwIdle /\ QlIdle /\ StIdle /\ CvIdle /\ IxIdle /\ SnIdle /\ PfIdle
IngestNext ==
    \/ \E path \in {"upload", "csv"}, ns \in StoreNamespaces,
          n \in 0..MaxIngestRows : IngestBegin(path, ns, n)
    \/ IngestParse
    \/ IngestParseFails
    \/ IngestEmbed
    \/ IngestEmbedFails
    \/ \E stored \in BOOLEAN : IngestUpsert(stored)
    \/ IngestRespond
    \/ IngestEnds
SpecIngest == IngestInit /\ [][IngestNext]_vars

\* rolling_window_chunk under every configured overlap; the call keeps running
\* until it returns
OverlapInit == RwOverlapInit /\ NsIdle /\ QlIdle /\ StIdle /\ CvIdle /\ IxIdle /\ SnIdle /\ IgIdle /\ PfIdle
SpecOverlap == OverlapInit /\ [][RollingNext]_vars /\ WF_vars(RollingNext)

ParseInit == PfInit /\ NsIdle /\ RwIdle /\ QlIdle /\ StIdle /\ CvIdle /\ IxIdle /\ SnIdle /\ IgIdle
ParseNext ==
    \/ ParseRead
    \/ ParseClean
SpecParse == ParseInit /\ [][ParseNext]_vars

(***************************************************************************)
(* Claims.                                                                 *)
(***************************************************************************)

\* C1: namespace derivation is injective on (owner_id, source_id): the
\* namespaces derived by /upload and by /query are equal if and only if the
\* two user ids are equal and the two file ids are equal.
NamespaceInjective ==
    (up_req # NoReq /\ q_req # NoReq) =>
        ((up_req.namespace = q_req.namespace)
            <=> (up_req.user_id = q_req.user_id /\ up_req.file_id = q_req.file_id))

\* size of the intersection of the token ranges of two windows
WindowOverlap(a, b) ==
    Max(0, Min(a.end_token, b.end_token) - Max(a.start_token, b.start_token))

\* C10: the windows emitted by rolling_window_chunk union to exactly
\* [0, total_tokens), and every two consecutive windows overlap by exactly the
\* computed overlap, except possibly the pair that ends in the last window.
RollingWindowsCover ==
    rw_pc = "done" =>
        /\ \A t \in 0..(total_tokens - 1) :
              \E i \in 1..Len(chunks) :
                  chunks[i].start_token <= t /\ t < chunks[i].end_token
        /\ \A i \in 1..Len(chunks) :
              /\ 0 <= chunks[i].start_token
              /\ chunks[i].start_token < chunks[i].end_token
              /\ chunks[i].end_token <= total_tokens
        /\ \A i \in 1..(Len(chunks) - 1) :
              (i + 1 < Len(chunks)) =>
                  WindowOverlap(chunks[i], chunks[i + 1]) = overlap

\* a finished run of at least three windows whose last window is partial and
\* overlaps its predecessor by less than the computed overlap
RollingWindowsWitness ==
    /\ rw_pc = "done"
    /\ Len(chunks) >= 3
    /\ chunks[Len(chunks)].end_token - chunks[Len(chunks)].start_token < chunk_size
    /\ WindowOverlap(chunks[Len(chunks) - 1], chunks[Len(chunks)]) < overlap
    /\ WindowOverlap(chunks[1], chunks[2]) = overlap

\* the query_llm call has taken the step what
LogHas(what) == \E i \in 1..Len(ql_log) : ql_log[i] = what

\* C4: the context_text returned by _format_sources is at most max_chars long,
\* separators included.
ContextWithinBudget ==
    LogHas("assemble") => context_text.len <= max_context_chars

\* summed formatted lengths of the first k matches
RECURSIVE PrefixSum(_, _)
PrefixSum(ms, k) ==
    IF k = 0 THEN 0 ELSE PrefixSum(ms, k - 1) + EntryLen(ms[k], k)

\* C5: the evidence list is exactly the longest prefix of the matches whose
\* summed formatted lengths stay within max_chars, in input order with index
\* values 1..k, whole entries only; formatted lengths 1000, 1200, 900 with
\* max_chars = 2500 yield entries 1 and 2.
EvidenceIsLongestPrefix ==
    LogHas("assemble") =>
        LET k == Len(sources) IN
        /\ k <= Len(matches)
        /\ \A i \in 1..k :
              /\ sources[i].index = i
              /\ sources[i].chunk_id = matches[i].id
              /\ sources[i].raw = matches[i].content
        /\ PrefixSum(matches, k) <= max_context_chars
        /\ k < Len(matches) => PrefixSum(matches, k + 1) > max_context_chars
        /\ context_text.len = PrefixSum(matches, k) + (IF k = 0 THEN 0 ELSE k - 1)
        /\ ( /\ Len(matches) = 3
             /\ EntryLen(matches[1], 1) = 1000
             /\ EntryLen(matches[2], 2) = 1200
             /\ EntryLen(matches[3], 3) = 900
             /\ max_context_chars = 2500 ) => k = 2

\* the assembly stopped at an entry that exceeds the budget although a later,
\* shorter entry would still have fitted
EvidencePrefixWitness ==
    /\ LogHas("assemble")
    /\ Len(sources) >= 1
    /\ Len(sources) + 2 <= Len(matches)
    /\ \E j \in (Len(sources) + 2)..Len(matches) :
          PrefixSum(matches, Len(sources)) + EntryLen(matches[j], j)
              <= max_context_chars

QueryEnded == ql_pc \in {"returned", "raised"}

\* C6: query_llm calls the language model if and only if the assembled
\* evidence is non-empty; with no evidence it returns the fixed answer with
\* sources = [] and never calls ask_llm.
LlmCalledIffEvidence ==
    /\ llm_calls > 0 => sources # <<>>
    /\ (QueryEnded /\ LogHas("assemble")) =>
          /\ (llm_calls > 0) <=> (sources # <<>>)
          /\ sources = <<>> =>
                /\ ql_pc = "returned"
                /\ result = DontKnowResult

\* matches were retrieved, none fits the budget, and the call returned the
\* fixed answer without a language-model call
NoEvidenceWitness ==
    /\ ql_pc = "returned"
    /\ matches # <<>>
    /\ sources = <<>>
    /\ llm_calls = 0
    /\ result = DontKnowResult

\* ask_llm returned a text (not None) and the call has ended
ParsedText == QueryEnded /\ LogHas("generate") /\ llm_response # NullContent

ParseReturnsAnswerContract ==
    (QueryEnded /\ LogHas("generate")) =>
        /\ ql_pc = "returned"
        /\ {"answer", "sources"} \subseteq DOMAIN result

\* C9 as stated: whenever the response parses as JSON the returned value has
\* resolved_sources equal to the evidence list.
ParsedJsonCarriesEvidence ==
    (ParsedText /\ JsonValid(llm_response)) =>
        /\ ql_pc = "returned"
        /\ "resolved_sources" \in DOMAIN result
        /\ result.resolved_sources = sources

\* C9 amended: whenever the response parses as a JSON object the returned value
\* has resolved_sources equal to the complete evidence list of the assembler,
\* whatever the model emitted.
ParsedObjectCarriesEvidence ==
    (ParsedText /\ JsonIsObject(llm_response)) =>
        /\ ql_pc = "returned"
        /\ "resolved_sources" \in DOMAIN result
        /\ result.resolved_sources = sources
        /\ sources = format_sources(matches, max_context_chars).sources

\* the model emitted its own resolved_sources and the evidence list of two or
\* more entries replaced it
ParsedObjectWitness ==
    /\ ql_pc = "returned"
    /\ llm_response.kind = "json_object_resolved"
    /\ Len(sources) >= 2
    /\ result.resolved_sources = sources
    /\ result.answer = ModelAnswer

\* C2: a query with namespace N returns at most top_k matches, each upserted
\* with namespace N (N = "default" when the caller passes none).
QueryNamespaceIsolation ==
    /\ Cardinality(last_query.matches) <= last_query.top_k
    /\ \A m \in last_query.matches :
          m.metadata = (IF last_query.namespace = None THEN DefaultNamespace
                        ELSE last_query.namespace)

\* a query of one namespace returned matches while another namespace holds
\* records too
QueryIsolationWitness ==
    /\ last_query.matches # {}
    /\ last_query.namespace \in UploadNamespaces
    /\ \E r \in store : r.namespace # last_query.namespace
    /\ \E r \in store : r.namespace = last_query.namespace
                          /\ r \notin last_query.matches

\* C3: upsert_vectors never returns normally with a failed batch unreported,
\* so /upload never answers success when a batch of the file was not stored.
UpsertFailureSurfaced ==
    /\ uv_pc = "returned" => \A i \in 1..Len(uv_state) : uv_state[i] = "done"
    /\ upload_response = "success" =>
          \A i \in 1..Len(uv_state) : uv_state[i] = "done"

\* C11: rolling_window_chunk emits chunk ids 0, 1, 2, ... and stops as soon as
\* a window covers the final token: for total_tokens > 0 exactly one chunk has
\* end_token = total_tokens, it is the last one, and no chunk's token range is
\* contained in the range of the chunk before it.
RollingStopsAtFinalToken ==
    (rw_pc = "done" /\ total_tokens > 0) =>
        /\ \A i \in 1..Len(chunks) : chunks[i].chunk_id = i - 1
        /\ \A i \in 1..Len(chunks) :
              (chunks[i].end_token = total_tokens) <=> (i = Len(chunks))
        /\ \A i \in 2..Len(chunks) :
              ~( /\ chunks[i - 1].start_token <= chunks[i].start_token
                 /\ chunks[i].end_token <= chunks[i - 1].end_token )

\* the row texts a chunk content holds, in order
ChunkRows(content) == SelectSeq(content, LAMBDA x : x # Newline)
RECURSIVE SumTokens(_)
SumTokens(rows) ==
    IF Len(rows) = 0 THEN 0 ELSE Head(rows).tokens + SumTokens(Tail(rows))
RECURSIVE AllChunkRows(_)
AllChunkRows(cs) ==
    IF Len(cs) = 0 THEN <<>>
    ELSE ChunkRows(Head(cs).content) \o AllChunkRows(Tail(cs))

\* C12: every chunk emitted by csv_chunker has rows whose token counts sum to
\* at most 500, unless the chunk is a single row that alone exceeds 500.
CsvChunkWithinBudget ==
    \A i \in 1..Len(csv_chunks) :
        LET rows == ChunkRows(csv_chunks[i].content)
        IN \/ SumTokens(rows) <= ROW_BUDGET
           \/ Len(rows) = 1 /\ rows[1].tokens > ROW_BUDGET
\* a finished run that emitted a chunk of several rows right at the budget
\* and an oversized row as a chunk of its own
CsvBudgetWitness ==
    /\ csv_pc = "done"
    /\ \E i \in 1..Len(csv_chunks) :
          LET rows == ChunkRows(csv_chunks[i].content)
          IN Len(rows) >= 2 /\ SumTokens(rows) = ROW_BUDGET
    /\ \E i \in 1..Len(csv_chunks) :
          LET rows == ChunkRows(csv_chunks[i].content)
          IN Len(rows) = 1 /\ rows[1].tokens > ROW_BUDGET

\* C13: when csv_chunker returns, the rows of its chunks, taken in chunk
\* order, are exactly the data rows of the file in input order, each once,
\* and the header is in no chunk; chunk ids follow the chunk order.
CsvRowsPreserved ==
    csv_pc = "done" =>
        LET got == AllChunkRows(csv_chunks)
        IN /\ got = Tail(file_obj)
           /\ \A i \in 1..Len(got) : got[i] # HeaderLine
           /\ \A i \in 1..Len(csv_chunks) : csv_chunks[i].chunk_id = i - 1
\* a finished run over the full number of rows whose last chunk is a partial
\* batch flushed after the loop
CsvFlushWitness ==
    /\ csv_pc = "done"
    /\ Len(AllChunkRows(csv_chunks)) = MaxRows
    /\ Len(csv_chunks) >= 2
    /\ current_chunk # <<>>
    /\ csv_chunks[Len(csv_chunks)].content = JoinRows(current_chunk)

\* the constructions that returned a manager
Returned(h) == { i \in 1..Len(h) : h[i].outcome = "bound" }
\* the provider holds an index of this name and dimension
HoldsIndex(name, dimension) ==
    \E i \in pinecone_indexes : i.name = name /\ i.dimension = dimension

\* C14: a manager constructed with required dimension 1024 and base name B
\* while an index B of dimension 384 exists binds to B-1024, creating it only
\* when the listing lacks it; a later construction with the same parameters
\* binds to the same B-1024 and issues no create_index call.
MismatchBindsDerived ==
    \A i \in Returned(ix_history) :
        LET c == ix_history[i]
            derived == Suggested(BaseName, 1024)
        IN ( /\ c.index_name = BaseName
             /\ c.dimension = 1024
             /\ BaseName \in c.existing
             /\ HoldsIndex(BaseName, 384) ) =>
              /\ c.bound = derived
              /\ (c.creates # <<>>) <=> (derived \notin c.existing)
              /\ \A j \in Returned(ix_history) :
                    LET d == ix_history[j]
                    IN ( /\ d.started > c.ended
                         /\ d.index_name = c.index_name
                         /\ d.dimension = c.dimension ) =>
                          d.bound = derived /\ d.creates = <<>>

\* C15: a construction issues create_index at most once, and exactly when the
\* name it resolved to is absent from the names list_indexes returned; an
\* absent requested name is created with the required dimension and metric
\* and bound, and a requested name that exists with the required dimension is
\* bound with nothing created.
CreateOnlyWhenAbsent ==
    \A i \in 1..Len(ix_history) :
        LET c == ix_history[i]
            issued == c.creates # <<>>
        IN /\ Len(c.creates) <= 1
           /\ c.outcome = "bound" =>
                 /\ issued <=> (c.bound \notin c.existing)
                 /\ (c.index_name \notin c.existing) =>
                       /\ c.bound = c.index_name
                       /\ c.creates = <<[name |-> c.index_name,
                                         dimension |-> c.dimension,
                                         metric |-> DEFAULT_METRIC]>>
                 /\ ( /\ c.index_name \in c.existing
                      /\ HoldsIndex(c.index_name, c.dimension) ) =>
                       c.bound = c.index_name /\ ~issued
           /\ (c.outcome = "raised" /\ issued) =>
                 c.creates[1].name \notin c.existing
\* a construction that met a mismatch returned bound to the derived name it
\* created, and one that found the requested name absent created and bound it
CreateWitness ==
    /\ \E i \in Returned(ix_history) :
          /\ ix_history[i].bound = Suggested(ix_history[i].index_name,
                                             ix_history[i].dimension)
          /\ ix_history[i].creates # <<>>
    /\ \E i \in Returned(ix_history) :
          /\ ix_history[i].bound = ix_history[i].index_name
          /\ ix_history[i].creates # <<>>

\* C16: sanitize_text is idempotent: sanitizing what sanitize_text returned
\* returns it unchanged.
SanitizeIdempotent ==
    Len(sn_results) = 2 => sn_results[2] = sn_results[1]

\* a sequence of code points
IsString(x) == \A i \in 1..Len(x) : x[i] >= 0 /\ x[i] <= 1114111

\* C17: sanitize_text never raises: None gives the empty string, every other
\* argument a string, and a unicode_escape decode that fails leaves t = orig.
SanitizeNeverRaises ==
    /\ sn_pc # "raised"
    /\ \A i \in 1..Len(sn_results) : IsString(sn_results[i])
    /\ (sn_pc = "returned" /\ sn_arg.is_none) =>
          sn_results[Len(sn_results)] = <<>>
    /\ ( /\ sn_pc = "leftover"
         /\ HasBackslashX(sn_orig)
         /\ ~UnicodeEscape(sn_orig).ok ) => sn_t = sn_orig
\* a call whose argument holds a malformed \x escape has returned
MalformedEscapeWitness ==
    /\ sn_pc = "returned"
    /\ ~sn_arg.is_none
    /\ HasBackslashX(sn_orig)
    /\ ~UnicodeEscape(sn_orig).ok
    /\ Len(sn_results[Len(sn_results)]) > 0

\* the vectors of the index.upsert calls, in call order
RECURSIVE SubmittedVectors(_)
SubmittedVectors(calls) ==
    IF Len(calls) = 0 THEN <<>>
    ELSE Head(calls).vectors \o SubmittedVectors(Tail(calls))

\* C18: upsert_vectors hands every input vector to the provider in exactly one
\* index.upsert call, each call carries at most batch_size vectors and every
\* call but the last exactly batch_size, and at no moment are more than
\* max_workers calls in flight.
UpsertBatchesPartition ==
    /\ Cardinality(Inflight) <= uv_max_workers
    /\ \A c \in 1..Len(uv_calls) : Len(uv_calls[c].vectors) <= uv_batch_size
    /\ SubmittedVectors(uv_calls)
          = SubSeq(uv_vectors, 1, Len(SubmittedVectors(uv_calls)))
    /\ uv_pc = "returned" =>
          /\ SubmittedVectors(uv_calls) = uv_vectors
          /\ \A c \in 1..(Len(uv_calls) - 1) :
                Len(uv_calls[c].vectors) = uv_batch_size
\* a call with several full batches and a shorter last one, more batches than
\* workers, has returned
UpsertPartitionWitness ==
    /\ uv_pc = "returned"
    /\ Len(uv_calls) >= 2
    /\ Len(uv_calls) > uv_max_workers
    /\ uv_batch_size >= 2
    /\ Len(uv_calls[Len(uv_calls)].vectors) < uv_batch_size

\* the records stored under a namespace
RecordsOf(records, namespace) == { r \in records : r.namespace = namespace }

IngestStepsAt(name) == { i \in 1..Len(ig_log) : ig_log[i] = name }

\* C21: an ingestion runs normalizer, chunker, embedding adapter and vector
\* store write in this order: before every embedding call the texts went
\* through sanitize_text and then through a chunker, and every upsert comes
\* after an embedding call.
IngestStepOrder ==
    /\ \A e \in IngestStepsAt("embed") :
          \E s \in IngestStepsAt("sanitize_text"), c \in IngestStepsAt("chunk") :
              s < c /\ c < e
    /\ \A u \in IngestStepsAt("upsert") :
          \E e \in IngestStepsAt("embed") : e < u

\* the positions of a step in the log of a query_llm call
QueryStepsAt(names) == { i \in 1..Len(ql_log) : ql_log[i] \in names }

\* C22: a query_llm call embeds the query once, in query mode; it queries the
\* store once, after the embedding returned; it calls the language model at
\* most once, after retrieval, assembly and prompt building in this order;
\* it parses only what the model returned.
QueryStepOrder ==
    /\ QueryStepsAt({"embed_document"}) = {}
    /\ Cardinality(QueryStepsAt({"embed_query", "embed_raises"})) <= 1
    /\ Cardinality(QueryStepsAt({"retrieve", "retrieve_raises"})) <= 1
    /\ \A r \in QueryStepsAt({"retrieve", "retrieve_raises"}) :
          \E e \in QueryStepsAt({"embed_query"}) : e < r
    /\ llm_calls <= 1
    /\ Cardinality(QueryStepsAt({"generate", "generate_raises"})) = llm_calls
    /\ \A g \in QueryStepsAt({"generate", "generate_raises"}) :
          \E r \in QueryStepsAt({"retrieve"}), a \in QueryStepsAt({"assemble"}),
             b \in QueryStepsAt({"build_prompt"}) : r < a /\ a < b /\ b < g
    /\ \A p \in QueryStepsAt({"parse_object", "parse_fallback", "parse_raises"}) :
          \E g \in QueryStepsAt({"generate"}) : g < p
    /\ (ql_pc = "returned" /\ ql_log # <<>>) =>
          /\ Cardinality(QueryStepsAt({"embed_query"})) = 1
          /\ Cardinality(QueryStepsAt({"retrieve"})) = 1
\* a call that went through every step has returned
QueryFullPipelineWitness ==
    /\ ql_pc = "returned"
    /\ ql_log = <<"construct", "embed_query", "retrieve", "assemble",
                  "build_prompt", "generate", "parse_object">>

\* C23: calculate_chunk_params gives chunk_size 200 below 2000 tokens, 500
\* from 2000 up to but below 10000, and 1000 from 10000 on; the first window
\* of rolling_window_chunk is that long (or the whole text when shorter).
ChunkSizeTiers ==
    /\ total_tokens < 2000 => chunk_size = 200
    /\ (total_tokens >= 2000 /\ total_tokens < 10000) => chunk_size = 500
    /\ total_tokens >= 10000 => chunk_size = 1000
    /\ Len(chunks) > 0 =>
          chunks[1].end_token - chunks[1].start_token
             = Min(total_tokens,
                   IF total_tokens < 2000 THEN 200
                   ELSE IF total_tokens < 10000 THEN 500 ELSE 1000)
\* a text of exactly 2000 tokens has been chunked with windows of 500
ChunkSizeBoundaryWitness ==
    /\ rw_pc = "done"
    /\ total_tokens = 2000
    /\ Len(chunks) > 0
    /\ chunks[1].end_token = 500

\* C25: rolling_window_chunk terminates for every token count and every
\* configured overlap >= 0: the overlap used is the configured value when
\* that is below chunk_size and chunk_size/5 otherwise, so it is strictly
\* less than chunk_size, every iteration moves the window start forward by
\* at least 1, and the call returns.
RollingTerminates ==
    /\ [](/\ overlap = (IF chunk_overlap < chunk_size
                        THEN chunk_overlap ELSE chunk_size \div 5)
          /\ overlap < chunk_size)
    /\ [][chunk_id' # chunk_id => start' >= start + 1]_vars
    /\ <>(rw_pc = "done")
\* a call has returned several chunks under a configured overlap of at least
\* the chunk size
CappedOverlapWitness ==
    /\ rw_pc = "done"
    /\ chunk_overlap >= chunk_size
    /\ Len(chunks) > 1

\* the cells of one column of the file read, quotes stripped
StrippedColumn(c) ==
    [i \in 1..Len(pf_file.rows) |->
        StripQuotes(pf_file.rows[i][CHOOSE k \in 1..Len(Header) : Header[k] = c])]
ColumnIsNumeric(c) ==
    \A i \in 1..Len(pf_file.rows) : IsDigits(StrippedColumn(c)[i])

BoundIndexHasRequiredDimension ==
    \A i \in Returned(ix_history) :
        HoldsIndex(ix_history[i].bound, ix_history[i].dimension)

\* the name a construction that ended resolved to
ResolvedName(c) == IF c.creates # <<>> THEN c.creates[1].name ELSE c.bound

\* C27: two constructions with the same parameters that overlap in time and
\* resolve to an index absent from the listing of each create that index
\* exactly once between them, and both return bound to it (the provider
\* answers every call, and refuses only a create_index for a name it holds).
ConcurrentConstructionsCreateOnce ==
    \A i \in 1..Len(ix_history), j \in 1..Len(ix_history) :
        LET c == ix_history[i]
            d == ix_history[j]
        IN ( /\ i < j
             /\ c.index_name = d.index_name
             /\ c.dimension = d.dimension
             /\ c.started < d.ended
             /\ d.started < c.ended
             /\ ResolvedName(c) \notin c.existing
             /\ ResolvedName(d) \notin d.existing
             /\ \A x \in {c, d} :
                   x.outcome = "raised" => (x.creates # <<>> /\ x.taken) ) =>
              /\ c.outcome = "bound"
              /\ d.outcome = "bound"
              /\ c.bound = d.bound
              /\ Len(c.creates) + Len(d.creates) = 1

\* C28: for every setting of EMBED_DIM and PINECONE_INDEX and every
\* pre-existing set of indexes, a manager constructed as query_llm constructs
\* it after the manager of /upload was constructed binds to the index that
\* one bound to.
QueryBindsIngestionIndex ==
    \A pinecone_index \in IndexSettings, embed_dim \in Dimensions :
        \A i \in Returned(ix_history), j \in Returned(ix_history) :
            LET c == ix_history[i]
                d == ix_history[j]
            IN ( /\ [index_name |-> c.index_name, dimension |-> c.dimension]
                       = UploadManagerArgs(pinecone_index, embed_dim)
                 /\ [index_name |-> d.index_name, dimension |-> d.dimension]
                       = QueryManagerArgs(pinecone_index)
                 /\ d.started > c.ended ) =>
                  d.bound = c.bound

\* C29: csv_chunker never emits a chunk with no rows: the content of every
\* emitted chunk holds at least one data row.
CsvChunksNonEmpty ==
    \A i \in 1..Len(csv_chunks) :
        /\ csv_chunks[i].content # <<>>
        /\ Len(ChunkRows(csv_chunks[i].content)) >= 1

\* the records the batches of the current call stored
StoredByCall ==
    {r \in store : /\ r.namespace = uv_namespace
                   /\ \E i \in 1..Len(uv_state) :
                         uv_state[i] = "done" /\ r.id \in SeqRange(uv_batches[i])}

\* C30: when upsert_vectors has returned, every batch it built was submitted
\* to the provider and its submission has ended, none is in flight, and the
\* vectors of every batch that succeeded are in the index; a query of that
\* namespace issued after the return that gets fewer than top_k matches gets
\* all of them.
UpsertReturnsAfterBatches ==
    /\ [](uv_pc = "returned" =>
            /\ Inflight = {}
            /\ Len(uv_calls) = Len(uv_batches)
            /\ \A i \in 1..Len(uv_state) :
                  /\ uv_state[i] \in {"done", "failed"}
                  /\ uv_state[i] = "done" =>
                        \A v \in SeqRange(uv_batches[i]) :
                            \E r \in store : r.id = v /\ r.namespace = uv_namespace)
    /\ [][( /\ uv_pc = "returned"
            /\ last_query = NoQuery
            /\ last_query' # NoQuery
            /\ QueryLlmNamespace(last_query'.namespace) = uv_namespace
            /\ Cardinality(last_query'.matches) < last_query'.top_k ) =>
              StoredByCall \subseteq last_query'.matches]_vars
\* a call of several batches has returned, one batch stored and one refused,
\* and a query of its namespace was answered with what was stored
UpsertReturnedWitness ==
    /\ uv_pc = "returned"
    /\ \E i \in 1..Len(uv_state) : uv_state[i] = "done"
    /\ \E i \in 1..Len(uv_state) : uv_state[i] = "failed"
    /\ last_query # NoQuery
    /\ QueryLlmNamespace(last_query.namespace) = uv_namespace
    /\ StoredByCall # {}
    /\ StoredByCall \subseteq last_query.matches

====
